---- MODULE Spec2Model ----
(***************************************************************************)
(* Model of aeon-market-scanner-rs: the arbitrage matcher                  *)
(* (src/scanner/mod.rs), the commission model (src/common/commission.rs)   *)
(* and the streaming runtime of the venue drivers (src/cex/*/mod.rs).      *)
(*                                                                         *)
(* Numbers.  Prices and sizes are f64 in the source.  The model holds      *)
(* them as exact decimals: a price is an integer number of ticks, a fee    *)
(* rate an integer number of 1/FeeScale, an effective price an integer     *)
(* number of ticks/FeeScale, and a percentage an exact fraction            *)
(* [num, den] of which it is 100 times the value.  IEEE rounding and the   *)
(* non-decimal values NaN and +-infinity of parsed input are outside this  *)
(* number domain; the one infinity the arithmetic itself produces (a       *)
(* spread divided by an effective ask of zero) is the fraction with        *)
(* den = 0.                                                                *)
(***************************************************************************)
EXTENDS Integers, Sequences, FiniteSets, TLC

(***************************************************************************)
(* Bounds of the model.                                                    *)
(***************************************************************************)
\* prices, in ticks of 0.01, are drawn from 0, PriceBase .. PriceBase + MaxTick
\* (one tick is 0.005 percent of PriceBase) and PriceHigh (one percent above)
MaxTick == 2

PriceBase == 200 * 100
PriceHigh == PriceBase + 200
Prices == {0} \cup {PriceBase + k : k \in 0..MaxTick} \cup {PriceHigh}

(***************************************************************************)
(* common/exchange.rs: the venue tags.                                     *)
(***************************************************************************)
CexExchange ==
    {"Binance", "Bybit", "MEXC", "OKX", "Gateio", "Kucoin", "Bitget",
     "Btcturk", "Htx", "Coinbase", "Kraken", "Bitfinex", "Upbit", "Cryptocom"}

DexAggregator == {"KyberSwap"}

Cex(v) == [kind |-> "Cex", v |-> v]
Dex(v) == [kind |-> "Dex", v |-> v]

Exchange == {Cex(v) : v \in CexExchange} \cup {Dex(v) : v \in DexAggregator}

(***************************************************************************)
(* common/commission.rs.  Rates are integers in units of 1/FeeScale.       *)
(***************************************************************************)
FeeScale == 100 * 100

taker_fee_rate(cex) ==
    CASE cex = "Binance"   -> 10
      [] cex = "Bybit"     -> 10
      [] cex = "MEXC"      -> 5
      [] cex = "OKX"       -> 10
      [] cex = "Gateio"    -> 10
      [] cex = "Kucoin"    -> 10
      [] cex = "Bitget"    -> 10
      [] cex = "Btcturk"   -> 12
      [] cex = "Htx"       -> 20
      [] cex = "Coinbase"  -> 50
      [] cex = "Kraken"    -> 26
      [] cex = "Bitfinex"  -> 20
      [] cex = "Upbit"     -> 25
      [] cex = "Cryptocom" -> 4

dex_taker_fee_rate(dex) == 0

\* FeeOverrides: [cex_taker, dex_taker], each a function from some venues to a
\* rate; Option::None is the record NoOverrides.
NoOverrides == [none |-> TRUE]

taker_fee_rate_with_overrides(cex, overrides) ==
    IF overrides # NoOverrides /\ cex \in DOMAIN overrides.cex_taker
    THEN overrides.cex_taker[cex]
    ELSE taker_fee_rate(cex)

dex_taker_fee_rate_with_overrides(dex, overrides) ==
    IF overrides # NoOverrides /\ dex \in DOMAIN overrides.dex_taker
    THEN overrides.dex_taker[dex]
    ELSE dex_taker_fee_rate(dex)

fee_rate_with_overrides(exchange, overrides) ==
    IF exchange.kind = "Cex"
    THEN taker_fee_rate_with_overrides(exchange.v, overrides)
    ELSE dex_taker_fee_rate_with_overrides(exchange.v, overrides)

\* faulty variant: the fee is taken off a buy and put on a sell
effective_price_sides_swapped(amount, exchange, side, overrides) ==
    IF side = "Sell"
    THEN amount * (FeeScale + fee_rate_with_overrides(exchange, overrides))
    ELSE amount * (FeeScale - fee_rate_with_overrides(exchange, overrides))

\* amount * (1 + fee) for Buy, amount * (1 - fee) for Sell, in ticks/FeeScale
effective_price_with_overrides(amount, exchange, side, overrides) ==
    IF side = "Buy"
    THEN amount * (FeeScale + fee_rate_with_overrides(exchange, overrides))
    ELSE amount * (FeeScale - fee_rate_with_overrides(exchange, overrides))

(***************************************************************************)
(* common/utils.rs, common/price.rs.                                       *)
(***************************************************************************)
\* (bid + ask) / 2.0; mid prices are held in half ticks, so this is bid + ask
find_mid_price(bid_price, ask_price) == bid_price + ask_price

\* CexPrice and DexPrice (the route fields and the timestamp are carried data
\* no operation of the matcher reads)
Price(symbol, exchange, bid, ask, bid_qty, ask_qty) ==
    [symbol |-> symbol, mid_price |-> find_mid_price(bid, ask),
     bid_price |-> bid, ask_price |-> ask,
     bid_qty |-> bid_qty, ask_qty |-> ask_qty, exchange |-> exchange]

\* `let v = x;` followed by F(v): x is evaluated once and F sees its value
bind(F(_), x) == CHOOSE r \in {F(v) : v \in {x}} : TRUE

(***************************************************************************)
(* Vec::sort_by: a stable sort.  Le(a, b) says that a may stay before b,   *)
(* i.e. the comparator does not return Greater for (a, b).                 *)
(***************************************************************************)
sort_by(s, Le(_, _)) ==
    bind(LAMBDA v :
        LET n == Len(v)
            \* v[j] comes before v[i]: it is smaller, or equal and earlier
            Before(j, i) == IF j < i THEN Le(v[j], v[i]) ELSE j # i /\ ~Le(v[i], v[j])
            pos(i) == 1 + Cardinality({j \in 1..n : Before(j, i)})
        IN  [k \in 1..n |-> v[CHOOSE i \in 1..n : pos(i) = k]],
        s)

\* a / b >= c / d for a, c >= 0 and b, d > 0, by the integer parts and then the
\* remainders (no product is formed, so none overflows)
RECURSIVE FracGe(_, _, _, _)
FracGe(a, b, c, d) ==
    IF (a \div b) # (c \div d) THEN (a \div b) > (c \div d)
    ELSE IF c % d = 0 THEN TRUE
    ELSE IF a % b = 0 THEN FALSE
    ELSE FracGe(d, c % d, b, a % b)

\* f64 >= on percentages [num, den] with num > 0 and den >= 0 (den = 0: +infinity)
PctGe(a, b) ==
    IF a.den = 0 THEN TRUE
    ELSE IF b.den = 0 THEN FALSE
    ELSE FracGe(a.num, a.den, b.num, b.den)

\* b.spread_percentage.partial_cmp(&a.spread_percentage): descending order
BySpreadDesc(a, b) == PctGe(a.spread_percentage, b.spread_percentage)

(***************************************************************************)
(* scanner/mod.rs: exchange_name, find_opportunities.                      *)
(***************************************************************************)
exchange_name(exchange) ==
    IF exchange.kind = "Cex"
    THEN CASE exchange.v = "Htx"       -> "HTX"
           [] exchange.v = "Cryptocom" -> "Crypto.com"
           [] OTHER                    -> exchange.v
    ELSE "KyberSwap"

\* (effective, PriceData, exchange_name) for each cex price, then each dex price
Candidates(cex_prices, dex_prices, side, overrides) ==
    LET all == cex_prices \o dex_prices
    IN  [i \in 1..Len(all) |->
            [effective |-> effective_price_with_overrides(
                               IF side = "Buy" THEN all[i].ask_price
                                               ELSE all[i].bid_price,
                               all[i].exchange, side, overrides),
             data |-> all[i],
             name |-> exchange_name(all[i].exchange)]]

\* the skip conditions of the matching loop (lines 394-403)
\* faulty variant: the test against the 0.01 threshold is left out
MatchesWithoutThreshold(buy, sell) ==
    ~(buy.name = sell.name \/ sell.effective <= buy.effective)

\* faulty variant: a spread of exactly 0.01 percent is skipped too
MatchesAboveThreshold(buy, sell) ==
    /\ ~(buy.name = sell.name \/ sell.effective <= buy.effective)
    /\ LET spread == sell.effective - buy.effective
       IN  IF buy.effective > 0
           THEN ~(spread <= buy.effective \div (100 * 100))
           ELSE buy.effective = 0

\* faulty variant: the venue names are not compared
MatchesAnyVenue(buy, sell) ==
    /\ ~(sell.effective <= buy.effective)
    /\ LET spread == sell.effective - buy.effective
       IN  IF buy.effective > 0
           THEN ~(spread <= (buy.effective - 1) \div (100 * 100))
           ELSE buy.effective = 0

Matches(buy, sell) ==
    /\ ~(buy.name = sell.name \/ sell.effective <= buy.effective)
    /\ LET spread == sell.effective - buy.effective
       IN  \* spread_percentage = spread / effective_ask * 100 is not < 0.01:
           \* spread * 10000 < effective_ask, as spread <= (effective_ask - 1) / 10000
           IF buy.effective > 0
           THEN ~(spread <= (buy.effective - 1) \div (100 * 100))
           ELSE buy.effective = 0

\* faulty variant: the reported percents are the default table's
extract_commission_rates_default(buy_data, sell_data, overrides) ==
    <<fee_rate_with_overrides(buy_data.exchange, NoOverrides),
      fee_rate_with_overrides(sell_data.exchange, NoOverrides)>>

extract_commission_rates(buy_data, sell_data, overrides) ==
    <<fee_rate_with_overrides(buy_data.exchange, overrides),
      fee_rate_with_overrides(sell_data.exchange, overrides)>>

extract_quantities(buy_data, sell_data) ==
    <<buy_data.symbol, buy_data.ask_qty, sell_data.bid_qty>>

Min(a, b) == IF a <= b THEN a ELSE b

ArbitrageOpportunity(buy, sell, overrides) ==
    LET q     == extract_quantities(buy.data, sell.data)
        qty   == Min(q[2], q[3])
        rates == extract_commission_rates(buy.data, sell.data, overrides)
    IN  [source_exchange |-> buy.name,
         destination_exchange |-> sell.name,
         symbol |-> q[1],
         effective_ask |-> buy.effective,
         effective_bid |-> sell.effective,
         spread |-> sell.effective - buy.effective,
         \* (spread / effective_ask) * 100, held as the fraction spread / effective_ask
         spread_percentage |->
             [num |-> sell.effective - buy.effective, den |-> buy.effective],
         executable_quantity |-> qty,
         source_commission_percent |-> rates[1],
         destination_commission_percent |-> rates[2],
         \* source notional * source rate + destination notional * destination
         \* rate, held as the two unevaluated products
         total_commission_quote |->
             <<[notional |-> buy.effective * qty, rate |-> rates[1]],
               [notional |-> sell.effective * qty, rate |-> rates[2]]>>,
         source_leg |-> buy.data,
         destination_leg |-> sell.data]

\* the nested loops over the sorted candidates, in row-major order
MatchCandidates(buy_candidates, sell_candidates, overrides) ==
    LET n == Len(buy_candidates)
        pairs == [k \in 1..(n * n) |-> <<((k - 1) \div n) + 1, ((k - 1) % n) + 1>>]
    IN  bind(LAMBDA kept :
                [k \in 1..Len(kept) |->
                    ArbitrageOpportunity(buy_candidates[kept[k][1]],
                                         sell_candidates[kept[k][2]], overrides)],
             SelectSeq(pairs, LAMBDA p :
                 Matches(buy_candidates[p[1]], sell_candidates[p[2]])))

find_opportunities(cex_prices, dex_prices, overrides) ==
    bind(LAMBDA buy_candidates :
        bind(LAMBDA sell_candidates :
                MatchCandidates(buy_candidates, sell_candidates, overrides),
             sort_by(Candidates(cex_prices, dex_prices, "Sell", overrides),
                     LAMBDA a, b : a.effective >= b.effective)),
         sort_by(Candidates(cex_prices, dex_prices, "Buy", overrides),
                 LAMBDA a, b : a.effective <= b.effective))

opportunities_from_prices(cex_prices, dex_prices, overrides) ==
    find_opportunities(cex_prices, dex_prices, overrides)

(***************************************************************************)
(* The one-shot entry points.  A venue's REST answer is Err or a price.    *)
(***************************************************************************)
Err == [err |-> TRUE]

\* faulty variant: one failed fetch discards every answer
fetch_prices_all_or_nothing(results) ==
    IF \E i \in 1..Len(results) : results[i] = Err THEN <<>> ELSE results

\* fetch_cex_prices / fetch_dex_prices: the Ok answers, in request order
fetch_prices(results) == SelectSeq(results, LAMBDA r : r # Err)

\* scan_arbitrage_opportunities: fetch, compute, sort by profitability
scan_arbitrage_opportunities(cex_answers, dex_answers, overrides) ==
    sort_by(opportunities_from_prices(fetch_prices(cex_answers),
                                      fetch_prices(dex_answers), overrides),
            BySpreadDesc)

\* the venues and the symbol of the one-shot scans
ScanCex == <<"Binance", "MEXC">>
ScanSymbol == "BTCUSDT"

CexAnswers(v) ==
    {Err} \cup {Price(ScanSymbol, Cex(v), b, a, 1, 2) : b \in Prices, a \in Prices}

\* the DEX names its quote after the tokens it was given, base then quote:
\* the tokens of the scanned pair, or ETH and USDT
DexAnswers ==
    {Err} \cup {Price(ScanSymbol, Dex("KyberSwap"), b, a, 1, 2) :
                    b \in {PriceBase, PriceHigh}, a \in {PriceBase, PriceHigh}}
          \cup {Price("ETHUSDT", Dex("KyberSwap"), PriceHigh, PriceHigh, 1, 2)}

\* the FeeOverrides a caller passes
OverrideChoices ==
    {NoOverrides,
     [cex_taker |-> [v \in CexExchange |-> 0], dex_taker |-> [d \in DexAggregator |-> 0]],
     [cex_taker |-> [v \in {"Binance"} |-> 60], dex_taker |-> [d \in {} |-> 0]],
     \* a rate is any f64: a rebate is a negative one
     [cex_taker |-> [v \in {"MEXC"} |-> 0 - 5], dex_taker |-> [d \in DexAggregator |-> 2]]}

(***************************************************************************)
(* The streaming runtime.  Variables of the whole model.                   *)
(***************************************************************************)
\* the venues whose drivers are modelled, and the two the scanner streams from
StreamDrivers == {"Binance", "Cryptocom", "Kraken", "OKX"}
ScannerCex == <<"Binance", "Cryptocom">>

\* mpsc::channel(64) of every driver and of the snapshots; channel(256) merged
DriverChannelCap == 64
SnapshotChannelCap == 64
MergedChannelCap == 256

\* the network fails a driver's connection at most MaxFailures times in a row,
\* and publishes a frame only while fewer than MaxInFlight quotes and snapshots
\* are on their way through the tasks and channels
MaxFailures == 7
MaxInFlight == 1

VARIABLES
    entry,          \* the entry point the caller invoked
    cex_answers,    \* per requested CEX venue: its price, or Err
    dex_answers,    \* per requested DEX venue: its price, or Err
    fee_overrides,  \* the caller's FeeOverrides, or NoOverrides
    returned,       \* [done, value]: whether the entry point returned, and what
    symbols,        \* the symbols of the streaming request
    feed,           \* the (bid, ask) pairs the venues publish
    reconnect,      \* stream_price_websocket's reconnect
    max_attempts,   \* stream_price_websocket's max_attempts: <<>> is None, <<n>> is Some(n)
    reconnect_attempts, \* the fixed-delay drivers' reconnect_attempts
    cex_exchanges,  \* the venues of the streaming request
    stream_result,  \* what scan_arbitrage_from_websockets returned, if it has
    window,         \* how many quotes and snapshots the venues let be on their way
    dpc,            \* per driver task: where it is
    attempts,       \* per driver: its attempts / attempt counter
    backoff,        \* per driver: its backoff in seconds
    pending,        \* per driver: the price it is sending
    chan,           \* per driver: the prices buffered in its channel
    rx_open,        \* per driver: its channel's receiver has not been dropped
    fpc,            \* per forwarder task: where it is
    fheld,          \* per forwarder: the price it is forwarding
    merged,         \* the prices buffered in the merged channel
    mpc,            \* the matcher task: where it is
    cache,          \* the matcher's latest-quote cache: the prices it holds, one per key
    all_opps,       \* the snapshot the matcher is sending
    out,            \* the snapshots buffered in the snapshot channel
    consumer,       \* the caller's end of the snapshot channel
    book_venue,     \* the venue whose order book a driver rebuilds locally
    bids,           \* that driver's bid side: size by price
    asks,           \* that driver's ask side: size by price
    frame,          \* the book frame the driver has read and not yet handled
    quote,          \* the best bid and ask the last handled frame produced
    codec,          \* a translation of one symbol for one venue, step by step
    dex,            \* one get_price call of the DEX client, step by step
    pool,           \* the pool listener task and its channel
    bfx,            \* the Bitfinex driver: its connection, subscriptions and channel map
    wire,           \* the book frame a book driver has read, as it is on the wire
    snapshot_applied \* the book driver has applied a snapshot on this connection

oneshot_vars == <<cex_answers, dex_answers, returned>>
config_vars == <<entry, fee_overrides, symbols, feed, reconnect, max_attempts,
                 reconnect_attempts, cex_exchanges, stream_result, window>>
driver_vars == <<dpc, attempts, backoff, pending, chan, rx_open>>
scanner_vars == <<fpc, fheld, merged, mpc, cache, all_opps, out, consumer>>
book_vars == <<book_venue, bids, asks, frame, quote>>
feed_vars == <<wire, snapshot_applied>>
side_vars == <<book_vars, codec, dex, pool, bfx, feed_vars>>
vars == <<side_vars, oneshot_vars, config_vars, driver_vars, scanner_vars>>

NotReturned == [done |-> FALSE, value |-> <<>>]
Returned(value) == [done |-> TRUE, value |-> value]

NoPrice == [none |-> TRUE]

(***************************************************************************)
(* common/utils.rs: symbols.  A symbol text is a sequence of characters.   *)
(***************************************************************************)
UpperCase == <<"A", "B", "C", "D", "E", "F", "G", "H", "I", "J", "K", "L", "M",
               "N", "O", "P", "Q", "R", "S", "T", "U", "V", "W", "X", "Y", "Z">>
LowerCase == <<"a", "b", "c", "d", "e", "f", "g", "h", "i", "j", "k", "l", "m",
               "n", "o", "p", "q", "r", "s", "t", "u", "v", "w", "x", "y", "z">>

to_uppercase(s) ==
    [i \in 1..Len(s) |->
        IF \E k \in 1..26 : LowerCase[k] = s[i]
        THEN UpperCase[CHOOSE k \in 1..26 : LowerCase[k] = s[i]] ELSE s[i]]

to_lowercase(s) ==
    [i \in 1..Len(s) |->
        IF \E k \in 1..26 : UpperCase[k] = s[i]
        THEN LowerCase[CHOOSE k \in 1..26 : UpperCase[k] = s[i]] ELSE s[i]]

starts_with(s, pre) == Len(s) >= Len(pre) /\ SubSeq(s, 1, Len(pre)) = pre
ends_with(s, suf) == Len(s) >= Len(suf) /\ SubSeq(s, Len(s) - Len(suf) + 1, Len(s)) = suf

\* str::replace: every match of from, left to right, becomes to
RECURSIVE str_replace(_, _, _)
str_replace(s, from, to) ==
    IF Len(s) < Len(from) \/ from = <<>> THEN s
    ELSE IF starts_with(s, from)
         THEN to \o str_replace(SubSeq(s, Len(from) + 1, Len(s)), from, to)
    ELSE <<Head(s)>> \o str_replace(Tail(s), from, to)

normalize_symbol(symbol) ==
    str_replace(str_replace(to_uppercase(symbol), <<"-">>, <<>>), <<"_">>, <<>>)

USDT == <<"U", "S", "D", "T">>
USD == <<"U", "S", "D">>
UST == <<"U", "S", "T">>
KRW == <<"K", "R", "W">>
BTC == <<"B", "T", "C">>
XBT == <<"X", "B", "T">>

\* &normalized[..split_point] and &normalized[split_point..]
upto(s, split_point) == SubSeq(s, 1, split_point)
from(s, split_point) == SubSeq(s, split_point + 1, Len(s))

Formatted(text) == [ok |-> TRUE, text |-> text]
TooShort == [ok |-> FALSE, text |-> <<>>]

\* format!("{}<sep>{}", &normalized[..split_point], &normalized[split_point..])
\* of the venues that write base, separator, quote
separated_always_three(normalized, sep) ==
    IF Len(normalized) >= 6
    THEN Formatted(upto(normalized, Len(normalized) - 3) \o sep
                   \o from(normalized, Len(normalized) - 3))
    ELSE TooShort
separated(normalized, sep) ==
    IF Len(normalized) >= 7 /\ ends_with(normalized, USDT)
    THEN Formatted(upto(normalized, Len(normalized) - 4) \o sep
                   \o from(normalized, Len(normalized) - 4))
    ELSE IF Len(normalized) >= 6 /\ ends_with(normalized, USD)
    THEN Formatted(upto(normalized, Len(normalized) - 3) \o sep
                   \o from(normalized, Len(normalized) - 3))
    ELSE IF Len(normalized) >= 6
    THEN Formatted(upto(normalized, Len(normalized) - 3) \o sep
                   \o from(normalized, Len(normalized) - 3))
    ELSE TooShort

\* the Upbit arm: quote, dash, base
upbit_formatted(normalized) ==
    IF Len(normalized) >= 7 /\ ends_with(normalized, USDT)
    THEN Formatted(USDT \o <<"-">> \o upto(normalized, Len(normalized) - 4))
    ELSE IF Len(normalized) >= 6 /\ ends_with(normalized, KRW)
    THEN Formatted(KRW \o <<"-">> \o upto(normalized, Len(normalized) - 3))
    ELSE IF Len(normalized) >= 6 /\ ends_with(normalized, USD)
    THEN Formatted(KRW \o <<"-">> \o upto(normalized, Len(normalized) - 3))
    ELSE IF Len(normalized) >= 6 /\ ends_with(normalized, BTC)
    THEN Formatted(BTC \o <<"-">> \o upto(normalized, Len(normalized) - 3))
    ELSE IF starts_with(normalized, BTC) /\ Len(normalized) >= 7
    THEN Formatted(upto(normalized, 3) \o <<"-">> \o from(normalized, 3))
    ELSE IF Len(normalized) >= 6
    THEN LET split_point == IF Len(normalized) >= 7 THEN Len(normalized) - 4
                            ELSE Len(normalized) - 3
         IN  Formatted(from(normalized, split_point) \o <<"-">>
                       \o upto(normalized, split_point))
    ELSE TooShort

\* `let formatted = match exchange { .. }` of format_symbol_for_exchange
formatted(normalized, exchange) ==
    CASE exchange \in {"Binance", "Bybit", "MEXC", "Bitget", "Btcturk"} ->
            Formatted(normalized)
      [] exchange \in {"OKX", "Kucoin", "Coinbase"} -> separated(normalized, <<"-">>)
      [] exchange = "Htx" -> Formatted(to_lowercase(normalized))
      [] exchange = "Kraken" ->
            Formatted(IF starts_with(normalized, BTC)
                      THEN str_replace(normalized, BTC, XBT) ELSE normalized)
      [] exchange \in {"Gateio", "Cryptocom"} -> separated(normalized, <<"_">>)
      [] exchange = "Bitfinex" ->
            Formatted(<<"t">> \o (IF ends_with(normalized, USDT)
                                  THEN str_replace(normalized, USDT, UST)
                                  ELSE normalized))
      [] exchange = "Upbit" -> upbit_formatted(normalized)

\* format_symbol_for_exchange, with the text it returns
format_symbol_text(symbol, exchange) ==
    IF normalize_symbol(symbol) = <<>> THEN TooShort
    ELSE formatted(normalize_symbol(symbol), exchange)

format_symbol_for_exchange_ws(symbol, exchange) ==
    LET f == format_symbol_text(symbol, exchange)
        n == normalize_symbol(symbol)
    IN  IF ~f.ok THEN f
        ELSE IF exchange = "Binance" THEN Formatted(to_lowercase(f.text))
        ELSE IF exchange = "Kraken"
             THEN IF Len(n) >= 7 /\ ends_with(n, USDT)
                  THEN Formatted(upto(n, Len(n) - 4) \o <<"/">> \o USDT)
                  ELSE IF Len(n) >= 6 /\ ends_with(n, USD)
                  THEN Formatted(upto(n, Len(n) - 3) \o <<"/">> \o USD)
                  ELSE IF Len(n) >= 6
                  THEN Formatted(upto(n, Len(n) - 3) \o <<"/">> \o from(n, Len(n) - 3))
                  ELSE f
        ELSE f

standard_symbol_plain(symbol, exchange) == symbol
standard_symbol_for_cex_ws_response(symbol, exchange) ==
    IF exchange = "Bitfinex" /\ ends_with(normalize_symbol(symbol), USDT)
    THEN str_replace(normalize_symbol(symbol), USDT, UST)
    ELSE normalize_symbol(symbol)

(***************************************************************************)
(* Local order books (Kraken, Crypto.com).  The driver keeps, per symbol,  *)
(* two BTreeMap<Decimal, Decimal>: bids and asks, size by price.  A price  *)
(* is a whole number of ticks; 0 is also what an unreadable price or size  *)
(* becomes (unwrap_or(0.0), unwrap_or_default()).  Equal prices are one    *)
(* key whatever their spelling (Decimal's Ord is numeric).                 *)
(***************************************************************************)
MaxLevel == 2
BookPrices == 0..MaxLevel
BidSizes == 0..2
AskSizes == 0..1
BookVenues == {"Kraken", "Cryptocom"}

\* BTreeMap::new(), and clear()
EmptyMap == [p \in {} |-> 0]

btree_remove(map, price) == [p \in DOMAIN map \ {price} |-> map[p]]

btree_insert(map, price, qty) ==
    [p \in DOMAIN map \cup {price} |-> IF p = price THEN qty ELSE map[p]]

\* the body of the loop over the levels; a level is <<price, qty>>
apply_level_keeps_zero(map, level) == btree_insert(map, level[1], level[2])
apply_level(map, level) ==
    IF level[2] = 0
    THEN btree_remove(map, level[1])
    ELSE btree_insert(map, level[1], level[2])

RECURSIVE apply_levels(_, _)
apply_levels(map, arr) ==
    IF arr = <<>> THEN map
    ELSE apply_levels(apply_level(map, Head(arr)), Tail(arr))

MaxOf(S) == CHOOSE x \in S : \A y \in S : y <= x
MinOf(S) == CHOOSE x \in S : \A y \in S : x <= y

NoQuote == <<>>

\* the last key of the bids and the first key of the asks, with their sizes
best_bid_ask_first_bid(b, a) ==
    IF DOMAIN b = {} \/ DOMAIN a = {} THEN NoQuote
    ELSE LET bid == MinOf(DOMAIN b)
             ask == MinOf(DOMAIN a)
         IN  IF bid <= 0 \/ ask <= 0 THEN NoQuote
             ELSE <<bid, ask, b[bid], a[ask]>>
best_bid_ask(b, a) ==
    IF DOMAIN b = {} \/ DOMAIN a = {} THEN NoQuote
    ELSE LET bid == MaxOf(DOMAIN b)
             ask == MinOf(DOMAIN a)
         IN  IF bid <= 0 \/ ask <= 0 THEN NoQuote
             ELSE <<bid, ask, b[bid], a[ask]>>

NoFrame == [kind |-> "none", bids |-> <<>>, asks |-> <<>>]

\* no book driver runs
BookIdle ==
    /\ book_venue = "" /\ bids = EmptyMap /\ asks = EmptyMap
    /\ frame = NoFrame /\ quote = NoQuote

\* no symbol is being translated
NoCodec == [pc |-> "none", symbol |-> <<>>, exchange |-> "", wire |-> TooShort,
            standard |-> <<>>]

\* no get_price call
NoDex == [pc |-> "none", base_token |-> <<>>, quote_token |-> <<>>, queries |-> <<>>,
          ask_data |-> <<>>, result |-> <<>>]

\* no pool listener
NoPool == [pc |-> "none", listen_mode |-> "", reconnect_attempts |-> 0, attempt |-> 0,
           last_emitted_block |-> <<>>, rx_open |-> FALSE, chan |-> <<>>,
           updates |-> <<>>]

\* no Bitfinex driver
NoBfxFrame == [kind |-> "none", event |-> "", chan_id |-> 0, symbol |-> <<>>,
               bid |-> 0, ask |-> 0]
NoBfx == [pc |-> "none", reconnect |-> FALSE, max_attempts |-> <<>>, attempts |-> 0,
          backoff |-> 1, bitfinex_symbols |-> <<>>, next |-> 1, subscribed |-> {},
          chan_to_symbol |-> EmptyMap, acked |-> EmptyMap, frame |-> NoBfxFrame,
          rx_open |-> FALSE, chan |-> <<>>]

\* no frame on the wire
NoWire == [kind |-> "none", json |-> FALSE, bids |-> <<>>, asks |-> <<>>]

LateIdle == pool = NoPool /\ bfx = NoBfx /\ wire = NoWire /\ snapshot_applied = FALSE

SideIdle == BookIdle /\ codec = NoCodec /\ dex = NoDex /\ LateIdle

\* the streaming call: not made, running, returned Ok(rx), returned Err(..)
NoCall == [state |-> "none", kind |-> "", msg |-> ""]
Calling == [state |-> "calling", kind |-> "", msg |-> ""]
StreamOk == [state |-> "ok", kind |-> "", msg |-> ""]
ApiError(msg) == [state |-> "err", kind |-> "ApiError", msg |-> msg]
InvalidSymbol(msg) == [state |-> "err", kind |-> "InvalidSymbol", msg |-> msg]

\* no streaming task exists
StreamIdle ==
    /\ symbols = <<>> /\ feed = {}
    /\ cex_exchanges = <<>> /\ stream_result = NoCall /\ window = 0
    /\ reconnect = FALSE /\ max_attempts = <<>> /\ reconnect_attempts = 0
    /\ dpc = [d \in StreamDrivers |-> "none"]
    /\ attempts = [d \in StreamDrivers |-> 0]
    /\ backoff = [d \in StreamDrivers |-> 1]
    /\ pending = [d \in StreamDrivers |-> NoPrice]
    /\ chan = [d \in StreamDrivers |-> <<>>]
    /\ rx_open = [d \in StreamDrivers |-> FALSE]
    /\ fpc = [d \in StreamDrivers |-> "none"]
    /\ fheld = [d \in StreamDrivers |-> NoPrice]
    /\ merged = <<>> /\ mpc = "none" /\ cache = {}
    /\ all_opps = <<>> /\ out = <<>> /\ consumer = "none"

InitOneShot ==
    /\ SideIdle
    /\ entry \in {"opportunities_from_prices", "scan_arbitrage_opportunities"}
    /\ cex_answers \in {<<x, y>> : x \in CexAnswers(ScanCex[1]),
                                   y \in CexAnswers(ScanCex[2])}
    /\ dex_answers \in {<<d>> : d \in DexAnswers}
    /\ fee_overrides \in OverrideChoices
    /\ returned = NotReturned
    /\ StreamIdle

\* a caller of opportunities_from_prices passes the prices it holds
OpportunitiesFromPrices ==
    /\ entry = "opportunities_from_prices"
    /\ returned = NotReturned
    /\ returned' = Returned(opportunities_from_prices(
                     fetch_prices(cex_answers), fetch_prices(dex_answers), fee_overrides))
    /\ UNCHANGED <<side_vars, cex_answers, dex_answers, config_vars, driver_vars, scanner_vars>>

ScanArbitrageOpportunities ==
    /\ entry = "scan_arbitrage_opportunities"
    /\ returned = NotReturned
    /\ returned' = Returned(scan_arbitrage_opportunities(
                     cex_answers, dex_answers, fee_overrides))
    /\ UNCHANGED <<side_vars, cex_answers, dex_answers, config_vars, driver_vars, scanner_vars>>

(***************************************************************************)
(* The venue drivers: the task stream_price_websocket spawns.              *)
(* cex/binance/mod.rs 128-227, cex/kraken/mod.rs 205-388 (exponential      *)
(* backoff, reconnect and max_attempts), cex/okx/mod.rs 141-243 (fixed     *)
(* delay, reconnect_attempts).  dpc: "connect" connect_async is running,   *)
(* "subscribe" the subscribe message is being sent, "read" read.next() is  *)
(* awaited, "send" tx.send(price) is awaited, "sleep" the retry sleep,     *)
(* "returned" left by return, "exited" left by break.                      *)
(***************************************************************************)
FixedDelay(d) == d = "OKX"
Subscribes(d) == d \in {"Cryptocom", "Kraken", "OKX"}

MaxBackoff == 30

Running(d) == dpc[d] \in {"connect", "subscribe", "read", "send", "sleep"}
Ended(d) == dpc[d] \in {"returned", "exited"}

\* tx.is_closed()
is_closed(d) == ~rx_open[d]

\* faulty variant: the reconnect flag is ignored, only a dropped receiver stops the retries
GivesUpOnlyWhenClosed(d) == is_closed(d)

\* the test before a retry: `!reconnect || tx.is_closed()`, and for the fixed
\* delay drivers `tx.is_closed() || reconnect_attempts == 0 || attempt > reconnect_attempts`
GivesUp(d) ==
    IF FixedDelay(d)
    THEN is_closed(d) \/ reconnect_attempts = 0 \/ attempts[d] > reconnect_attempts
    ELSE ~reconnect \/ is_closed(d)

\* faulty variant: the driver goes on until the counter exceeds the cap
OverCapExceeded(n) == max_attempts # <<>> /\ n > max_attempts[1]

\* attempts = attempts.saturating_add(1); break if attempts >= max
OverCap(n) == max_attempts # <<>> /\ n >= max_attempts[1]

\* dpc, attempts and backoff of driver d become pc, n and b
Goto(d, pc, n, b) ==
    /\ dpc' = [dpc EXCEPT ![d] = pc]
    /\ attempts' = [attempts EXCEPT ![d] = n]
    /\ backoff' = [backoff EXCEPT ![d] = b]

\* the Err arm of connect_async
AfterConnectErr(d) ==
    IF GivesUp(d) THEN Goto(d, "exited", attempts[d], backoff[d])
    ELSE IF FixedDelay(d) THEN Goto(d, "sleep", attempts[d], backoff[d])
    ELSE IF OverCap(attempts[d] + 1) THEN Goto(d, "exited", attempts[d] + 1, backoff[d])
    ELSE Goto(d, "sleep", attempts[d] + 1, backoff[d])

ConnectErr(d) ==
    /\ dpc[d] = "connect"
    /\ attempts[d] < MaxFailures + (IF FixedDelay(d) THEN 1 ELSE 0)
    /\ AfterConnectErr(d)
    /\ UNCHANGED <<pending, chan, rx_open>>
    /\ UNCHANGED <<side_vars, oneshot_vars, config_vars, scanner_vars>>

\* the Ok arm: the backoff drivers reset backoff and attempts
AfterConnectOk(d) ==
    IF FixedDelay(d)
    THEN Goto(d, "subscribe", attempts[d], backoff[d])
    ELSE Goto(d, IF Subscribes(d) THEN "subscribe" ELSE "read", 0, 1)

ConnectOk(d) ==
    /\ dpc[d] = "connect"
    /\ AfterConnectOk(d)
    /\ UNCHANGED <<pending, chan, rx_open>>
    /\ UNCHANGED <<side_vars, oneshot_vars, config_vars, scanner_vars>>

SubscribeOk(d) ==
    /\ dpc[d] = "subscribe"
    /\ Goto(d, "read", attempts[d], backoff[d])
    /\ UNCHANGED <<pending, chan, rx_open>>
    /\ UNCHANGED <<side_vars, oneshot_vars, config_vars, scanner_vars>>

\* the subscribe send failed: the backoff drivers `continue` without a sleep
AfterSubscribeErr(d) ==
    IF GivesUp(d) THEN Goto(d, "exited", attempts[d], backoff[d])
    ELSE IF FixedDelay(d) THEN Goto(d, "sleep", attempts[d], backoff[d])
    ELSE IF OverCap(attempts[d] + 1) THEN Goto(d, "exited", attempts[d] + 1, backoff[d])
    ELSE Goto(d, "connect", attempts[d] + 1, backoff[d])

SubscribeErr(d) ==
    /\ dpc[d] = "subscribe"
    /\ attempts[d] < MaxFailures + (IF FixedDelay(d) THEN 1 ELSE 0)
    /\ AfterSubscribeErr(d)
    /\ UNCHANGED <<pending, chan, rx_open>>
    /\ UNCHANGED <<side_vars, oneshot_vars, config_vars, scanner_vars>>

\* faulty variant: the doubling has no cap
AfterSleepUncapped(d) ==
    IF FixedDelay(d)
    THEN Goto(d, "connect", attempts[d] + 1, backoff[d])
    ELSE Goto(d, "connect", attempts[d], backoff[d] * 2)

\* the retry sleep is over: double the backoff up to the cap and loop; the
\* fixed delay drivers count the new attempt at the top of the loop
AfterSleep(d) ==
    IF FixedDelay(d)
    THEN Goto(d, "connect", attempts[d] + 1, backoff[d])
    ELSE Goto(d, "connect", attempts[d], Min(MaxBackoff, backoff[d] * 2))

Wake(d) ==
    /\ dpc[d] = "sleep"
    /\ AfterSleep(d)
    /\ UNCHANGED <<pending, chan, rx_open>>
    /\ UNCHANGED <<side_vars, oneshot_vars, config_vars, scanner_vars>>

\* quotes and snapshots on their way
InFlight ==
    Cardinality({d \in StreamDrivers : dpc[d] = "send"})
    + Len(chan["Binance"]) + Len(chan["Cryptocom"]) + Len(chan["Kraken"]) + Len(chan["OKX"])
    + Cardinality({d \in StreamDrivers : fpc[d] = "send"})
    + Len(merged) + (IF mpc = "send" THEN 1 ELSE 0) + Len(out)

SymbolSet == {symbols[i] : i \in 1..Len(symbols)}

\* a frame arrives and parses to a price: the driver goes on to send it
\* the symbols of the streaming requests as texts, and back
Chars(s) ==
    CASE s = "BTCUSDT" -> BTC \o USDT
      [] s = "ETHUSDT" -> <<"E", "T", "H">> \o USDT
      [] s = "BTC/USDT" -> BTC \o <<"/">> \o USDT
      [] s = "ETH/USDT" -> <<"E", "T", "H", "/">> \o USDT
      [] s = "BTC" -> BTC
      [] s = "XBT" -> XBT

Text(t) ==
    CHOOSE s \in {"BTCUSDT", "ETHUSDT", "BTC/USDT", "ETH/USDT", "BTC", "XBT"} : Chars(s) = t

\* the symbol of the quotes driver d sends for a requested symbol: the venue
\* names the pair in its frames as the driver subscribed to it
quote_symbol(symbol, d) ==
    Text(standard_symbol_for_cex_ws_response(
             format_symbol_for_exchange_ws(Chars(symbol), d).text, d))

\* quote_symbol of every symbol a request of the model names, on every venue
\* that has a name for it
quote_symbols ==
    LET subscribed == {p \in {"BTCUSDT", "ETHUSDT", "BTC"} \X StreamDrivers :
                          format_symbol_for_exchange_ws(Chars(p[1]), p[2]).ok}
    IN  {<<p[1], p[2], quote_symbol(p[1], p[2])>> : p \in subscribed}

ReadFrame(d) ==
    /\ dpc[d] = "read"
    /\ InFlight < window
    /\ \E sym \in SymbolSet, ba \in feed, q \in quote_symbols :
          /\ q[1] = sym /\ q[2] = d
          /\ pending' = [pending EXCEPT
                            ![d] = Price(q[3], Cex(d), ba[1], ba[2], 1, 2)]
    /\ Goto(d, "send", attempts[d], backoff[d])
    /\ UNCHANGED <<chan, rx_open>>
    /\ UNCHANGED <<side_vars, oneshot_vars, config_vars, scanner_vars>>

\* read.next() gave None or an error: the read loop is left
AfterReadLoop(d) ==
    IF GivesUp(d) THEN Goto(d, "exited", attempts[d], backoff[d])
    ELSE IF FixedDelay(d) THEN Goto(d, "sleep", attempts[d], backoff[d])
    ELSE Goto(d, "connect", attempts[d], backoff[d])

Disconnect(d) ==
    /\ dpc[d] = "read"
    /\ AfterReadLoop(d)
    /\ UNCHANGED <<pending, chan, rx_open>>
    /\ UNCHANGED <<side_vars, oneshot_vars, config_vars, scanner_vars>>

\* faulty variant: the channel hands out the newest message first
send_front(ch, x) == <<x>> \o ch

\* mpsc send: the message joins the channel's queue at its end
send(ch, x) == Append(ch, x)

\* faulty variant: the driver's channel takes a quote whether it has room or not
SendOkUnbounded(d) ==
    /\ dpc[d] = "send"
    /\ rx_open[d]
    /\ chan' = [chan EXCEPT ![d] = Append(@, pending[d])]
    /\ pending' = [pending EXCEPT ![d] = NoPrice]
    /\ Goto(d, "read", attempts[d], backoff[d])
    /\ UNCHANGED rx_open
    /\ UNCHANGED <<side_vars, oneshot_vars, config_vars, scanner_vars>>

\* tx.send(price).await returns Ok once the channel has room
SendOk(d) ==
    /\ dpc[d] = "send"
    /\ rx_open[d]
    /\ Len(chan[d]) < DriverChannelCap
    /\ chan' = [chan EXCEPT ![d] = send(@, pending[d])]
    /\ pending' = [pending EXCEPT ![d] = NoPrice]
    /\ Goto(d, "read", attempts[d], backoff[d])
    /\ UNCHANGED rx_open
    /\ UNCHANGED <<side_vars, oneshot_vars, config_vars, scanner_vars>>

\* faulty variant: the failed send is ignored and the driver reads on
AfterSendErrReadOn(d) == Goto(d, "read", attempts[d], backoff[d])

\* tx.send(price).await returns Err: the receiver was dropped
AfterSendErr(d) == Goto(d, "returned", attempts[d], backoff[d])

SendErr(d) ==
    /\ dpc[d] = "send"
    /\ ~rx_open[d]
    /\ pending' = [pending EXCEPT ![d] = NoPrice]
    /\ AfterSendErr(d)
    /\ UNCHANGED <<chan, rx_open>>
    /\ UNCHANGED <<side_vars, oneshot_vars, config_vars, scanner_vars>>

(***************************************************************************)
(* The caller of stream_price_websocket holds the receiver: it receives,   *)
(* or drops the receiver (and with it what the channel buffers).           *)
(***************************************************************************)
HeldByCaller(d) == dpc[d] # "none" /\ fpc[d] = "none"

CallerRecv(d) ==
    /\ HeldByCaller(d) /\ rx_open[d]
    /\ chan[d] # <<>>
    /\ chan' = [chan EXCEPT ![d] = Tail(@)]
    /\ UNCHANGED <<dpc, attempts, backoff, pending, rx_open>>
    /\ UNCHANGED <<side_vars, oneshot_vars, config_vars, scanner_vars>>

CallerDrop(d) ==
    /\ HeldByCaller(d) /\ rx_open[d]
    /\ rx_open' = [rx_open EXCEPT ![d] = FALSE]
    /\ chan' = [chan EXCEPT ![d] = <<>>]
    /\ UNCHANGED <<dpc, attempts, backoff, pending>>
    /\ UNCHANGED <<side_vars, oneshot_vars, config_vars, scanner_vars>>

DriverStep(d) ==
    \/ ConnectErr(d) \/ ConnectOk(d) \/ SubscribeOk(d) \/ SubscribeErr(d)
    \/ Wake(d) \/ ReadFrame(d) \/ Disconnect(d) \/ SendOk(d) \/ SendErr(d)

\* the (bid, ask) pairs of the feed: an invalid quote and the valid levels
Feed == {<<0, PriceBase>>, <<PriceBase, PriceBase>>, <<PriceHigh, PriceHigh>>}

\* stream_price_websocket(symbols, ..) of venue d0 has returned Ok(rx)
InitDriver(d0) ==
    /\ entry = "stream_price_websocket"
    /\ cex_answers = <<>> /\ dex_answers = <<>> /\ returned = NotReturned
    /\ SideIdle
    /\ fee_overrides = NoOverrides
    /\ symbols = <<ScanSymbol>> /\ feed = Feed
    /\ cex_exchanges = <<>> /\ stream_result = NoCall /\ window = MaxInFlight
    /\ IF FixedDelay(d0)
       THEN reconnect = FALSE /\ max_attempts = <<>>
            /\ reconnect_attempts \in 0..MaxFailures
       ELSE reconnect \in BOOLEAN
            /\ max_attempts \in {<<>>} \cup {<<n>> : n \in 1..MaxFailures}
            /\ reconnect_attempts = 0
    /\ dpc = [d \in StreamDrivers |-> IF d = d0 THEN "connect" ELSE "none"]
    /\ attempts = [d \in StreamDrivers |-> IF d = d0 /\ FixedDelay(d) THEN 1 ELSE 0]
    /\ backoff = [d \in StreamDrivers |-> 1]
    /\ pending = [d \in StreamDrivers |-> NoPrice]
    /\ chan = [d \in StreamDrivers |-> <<>>]
    /\ rx_open = [d \in StreamDrivers |-> d = d0]
    /\ fpc = [d \in StreamDrivers |-> "none"]
    /\ fheld = [d \in StreamDrivers |-> NoPrice]
    /\ merged = <<>> /\ mpc = "none" /\ cache = {}
    /\ all_opps = <<>> /\ out = <<>> /\ consumer = "none"

(***************************************************************************)
(* scan_arbitrage_from_websockets, scanner/mod.rs 83-165: one forwarder    *)
(* per venue moves the driver's quotes into the merged channel, the        *)
(* matcher keeps the latest valid quote per (exchange, symbol) and sends a *)
(* snapshot after each accepted quote, the consumer holds the receiver of  *)
(* the snapshots.                                                          *)
(***************************************************************************)
\* faulty variant: the driver's sender outlives the task, recv() never gives None
recv_none_never(d) == FALSE

\* ws_rx.recv() gives None: the sender is gone and nothing is buffered
recv_none(d) == chan[d] = <<>> /\ Ended(d)

\* while let Some(price) = ws_rx.recv().await
FwdRecv(d) ==
    /\ fpc[d] = "recv"
    /\ chan[d] # <<>>
    /\ fheld' = [fheld EXCEPT ![d] = Head(chan[d])]
    /\ chan' = [chan EXCEPT ![d] = Tail(@)]
    /\ fpc' = [fpc EXCEPT ![d] = "send"]
    /\ UNCHANGED <<dpc, attempts, backoff, pending, rx_open>>
    /\ UNCHANGED <<merged, mpc, cache, all_opps, out, consumer>>
    /\ UNCHANGED <<side_vars, oneshot_vars, config_vars>>

\* recv() gives None once the driver task is over and the channel is empty:
\* the forwarder ends and its receiver is dropped
FwdClosed(d) ==
    /\ fpc[d] = "recv"
    /\ recv_none(d)
    /\ fpc' = [fpc EXCEPT ![d] = "done"]
    /\ rx_open' = [rx_open EXCEPT ![d] = FALSE]
    /\ UNCHANGED <<dpc, attempts, backoff, pending, chan>>
    /\ UNCHANGED <<fheld, merged, mpc, cache, all_opps, out, consumer>>
    /\ UNCHANGED <<side_vars, oneshot_vars, config_vars>>

\* let _ = tx_fwd.send(price).await, with the matcher alive
FwdSendOk(d) ==
    /\ fpc[d] = "send"
    /\ mpc # "done"
    /\ Len(merged) < MergedChannelCap
    /\ merged' = send(merged, fheld[d])
    /\ fheld' = [fheld EXCEPT ![d] = NoPrice]
    /\ fpc' = [fpc EXCEPT ![d] = "recv"]
    /\ UNCHANGED <<mpc, cache, all_opps, out, consumer>>
    /\ UNCHANGED <<side_vars, oneshot_vars, config_vars, driver_vars>>

\* what the forwarder does with Err of the send: `let _ =` drops it
AfterFwdSendErr(d) == fpc' = [fpc EXCEPT ![d] = "recv"]

FwdSendErr(d) ==
    /\ fpc[d] = "send"
    /\ mpc = "done"
    /\ fheld' = [fheld EXCEPT ![d] = NoPrice]
    /\ AfterFwdSendErr(d)
    /\ UNCHANGED <<dpc, attempts, backoff, pending, chan>>
    /\ rx_open' = [e \in StreamDrivers |-> IF fpc'[e] = "done" THEN FALSE ELSE rx_open[e]]
    /\ UNCHANGED <<merged, mpc, cache, all_opps, out, consumer>>
    /\ UNCHANGED <<side_vars, oneshot_vars, config_vars>>

ForwarderStep(d) == FwdRecv(d) \/ FwdClosed(d) \/ FwdSendOk(d) \/ FwdSendErr(d)

\* faulty variant: the bid is not tested
IsValidIgnoringBid(price) ==
    ~(price.mid_price <= 0 \/ price.ask_price <= 0)

\* the matcher's test of an incoming quote (negated `continue` condition)
IsValid(price) ==
    ~(price.mid_price <= 0 \/ price.bid_price <= 0 \/ price.ask_price <= 0)

SameKey(p, q) == p.exchange = q.exchange /\ p.symbol = q.symbol

\* cache.insert((ex, symbol), price)
insert(c, price) == {q \in c : ~SameKey(q, price)} \cup {price}

\* the orders in which cache.values() may iterate
values(c) ==
    {s \in [1..Cardinality(c) -> c] :
        \A i, j \in 1..Cardinality(c) : i # j => s[i] # s[j]}

\* the loop over symbols_set from its i-th symbol on
RECURSIVE CollectOpps(_, _)
CollectOpps(vals, i) ==
    IF i > Len(symbols) THEN <<>>
    ELSE LET prices == SelectSeq(vals, LAMBDA p : p.symbol = symbols[i])
             opps == IF Len(prices) >= 2
                     THEN opportunities_from_prices(prices, <<>>, fee_overrides)
                     ELSE <<>>
         IN  opps \o CollectOpps(vals, i + 1)

\* faulty variant: the merged list is emitted as collected
SortSnapshotSkipped(opps) == opps

\* all_opps.sort_by(..) of the matcher
SortSnapshot(opps) == sort_by(opps, BySpreadDesc)

\* an invalid quote is dropped before it reaches the cache
MatchSkip ==
    /\ mpc = "recv"
    /\ merged # <<>>
    /\ ~IsValid(Head(merged))
    /\ merged' = Tail(merged)
    /\ UNCHANGED <<fpc, fheld, mpc, cache, all_opps, out, consumer>>
    /\ UNCHANGED <<side_vars, oneshot_vars, config_vars, driver_vars>>

\* faulty variant: a snapshot without opportunities is not sent
MatchQuoteSkipsEmpty ==
    /\ mpc = "recv"
    /\ merged # <<>>
    /\ IsValid(Head(merged))
    /\ merged' = Tail(merged)
    /\ cache' = insert(cache, Head(merged))
    /\ \E vals \in values(insert(cache, Head(merged))) :
          all_opps' = SortSnapshot(CollectOpps(vals, 1))
    /\ mpc' = IF all_opps' = <<>> THEN "recv" ELSE "send"
    /\ UNCHANGED <<fpc, fheld, out, consumer>>
    /\ UNCHANGED <<side_vars, oneshot_vars, config_vars, driver_vars>>

\* a valid quote: insert, match every symbol, sort, go on to send
MatchQuote ==
    /\ mpc = "recv"
    /\ merged # <<>>
    /\ IsValid(Head(merged))
    /\ merged' = Tail(merged)
    /\ cache' = insert(cache, Head(merged))
    /\ \E vals \in values(insert(cache, Head(merged))) :
          all_opps' = SortSnapshot(CollectOpps(vals, 1))
    /\ mpc' = "send"
    /\ UNCHANGED <<fpc, fheld, out, consumer>>
    /\ UNCHANGED <<side_vars, oneshot_vars, config_vars, driver_vars>>

\* rx_prices.recv() gives None: every forwarder is over, the channel empty
MatchClosed ==
    /\ mpc = "recv"
    /\ merged = <<>>
    /\ \A d \in StreamDrivers : fpc[d] \in {"none", "done"}
    /\ mpc' = "done"
    /\ UNCHANGED <<fpc, fheld, merged, cache, all_opps, out, consumer>>
    /\ UNCHANGED <<side_vars, oneshot_vars, config_vars, driver_vars>>

\* tx.send(all_opps).await with the consumer's receiver alive
MatchSendOk ==
    /\ mpc = "send"
    /\ consumer = "open"
    /\ Len(out) < SnapshotChannelCap
    /\ out' = send(out, all_opps)
    /\ all_opps' = <<>>
    /\ mpc' = "recv"
    /\ UNCHANGED <<fpc, fheld, merged, cache, consumer>>
    /\ UNCHANGED <<side_vars, oneshot_vars, config_vars, driver_vars>>

\* tx.send(all_opps).await.is_err(): return, which drops rx_prices
MatchSendErr ==
    /\ mpc = "send"
    /\ consumer # "open"
    /\ mpc' = "done"
    /\ merged' = <<>>
    /\ all_opps' = <<>>
    /\ UNCHANGED <<fpc, fheld, cache, out, consumer>>
    /\ UNCHANGED <<side_vars, oneshot_vars, config_vars, driver_vars>>

MatcherStep == MatchSkip \/ MatchQuote \/ MatchClosed \/ MatchSendOk \/ MatchSendErr

\* the consumer: rx.recv() gives a snapshot, or None, or rx is dropped
ConsumerRecv ==
    /\ consumer = "open"
    /\ out # <<>>
    /\ out' = Tail(out)
    /\ UNCHANGED <<fpc, fheld, merged, mpc, cache, all_opps, consumer>>
    /\ UNCHANGED <<side_vars, oneshot_vars, config_vars, driver_vars>>

ConsumerNone ==
    /\ consumer = "open"
    /\ out = <<>>
    /\ mpc = "done"
    /\ consumer' = "ended"
    /\ UNCHANGED <<fpc, fheld, merged, mpc, cache, all_opps, out>>
    /\ UNCHANGED <<side_vars, oneshot_vars, config_vars, driver_vars>>

ConsumerDrop ==
    /\ consumer = "open"
    /\ consumer' = "dropped"
    /\ out' = <<>>
    /\ UNCHANGED <<fpc, fheld, merged, mpc, cache, all_opps>>
    /\ UNCHANGED <<side_vars, oneshot_vars, config_vars, driver_vars>>

ConsumerStep == ConsumerRecv \/ ConsumerNone \/ ConsumerDrop

ScanSymbols == <<"BTCUSDT", "ETHUSDT">>

\* scan_arbitrage_from_websockets(syms, ScannerCex, .., reconnect, max_attempts)
\* has returned Ok(rx), with the quotes of the venues drawn from fd
InitScannerWith(syms, fd) ==
    /\ entry = "scan_arbitrage_from_websockets"
    /\ cex_answers = <<>> /\ dex_answers = <<>> /\ returned = NotReturned
    /\ SideIdle
    /\ fee_overrides = NoOverrides
    /\ symbols = syms /\ feed = fd
    /\ cex_exchanges = ScannerCex /\ stream_result = StreamOk /\ window = MaxInFlight
    /\ reconnect \in BOOLEAN
    /\ max_attempts = <<1>>
    /\ reconnect_attempts = 0
    /\ dpc = [d \in StreamDrivers |->
                 IF \E i \in 1..Len(ScannerCex) : ScannerCex[i] = d THEN "connect" ELSE "none"]
    /\ attempts = [d \in StreamDrivers |-> 0]
    /\ backoff = [d \in StreamDrivers |-> 1]
    /\ pending = [d \in StreamDrivers |-> NoPrice]
    /\ chan = [d \in StreamDrivers |-> <<>>]
    /\ rx_open = [d \in StreamDrivers |-> dpc[d] = "connect"]
    /\ fpc = [d \in StreamDrivers |-> IF dpc[d] = "connect" THEN "recv" ELSE "none"]
    /\ fheld = [d \in StreamDrivers |-> NoPrice]
    /\ merged = <<>> /\ mpc = "recv" /\ cache = {}
    /\ all_opps = <<>> /\ out = <<>> /\ consumer = "open"

StreamSymbols == <<ScanSymbol>>

InitScanner == InitScannerWith(StreamSymbols, Feed)

InitDrivers == \E d \in StreamDrivers : InitDriver(d)

(***************************************************************************)
(* The start of scan_arbitrage_from_websockets, scanner/mod.rs 83-126:     *)
(* keep the venues that support WebSocket, start their streams one after   *)
(* the other, then spawn the forwarders and the matcher.                   *)
(***************************************************************************)
\* the venues without a streaming implementation
NoStreamVenues == {"Btcturk", "Htx"}

exchange_supports_websocket(ex) == ex \notin NoStreamVenues

\* the venues whose format splits the symbol into base and quote
SplitVenues == {"OKX", "Kucoin", "Coinbase", "Gateio", "Upbit", "Cryptocom"}

\* format_symbol_for_exchange of a normalized symbol: Ok(text) or the error;
\* the text itself only goes into the subscribe message
format_symbol_for_exchange(symbol, exchange) ==
    IF Len(symbol) = 0 THEN InvalidSymbol("Symbol cannot be empty")
    ELSE IF exchange \in SplitVenues /\ Len(symbol) < 6
         THEN InvalidSymbol("Symbol too short")
    ELSE StreamOk

\* stream_price_websocket up to tokio::spawn: Ok(rx), or the error it returns
stream_price_websocket(ex, syms) ==
    IF syms = <<>> THEN InvalidSymbol("At least one symbol required")
    ELSE LET bad == {i \in 1..Len(syms) :
                        format_symbol_for_exchange(syms[i], ex).state = "err"}
             first == CHOOSE i \in bad : \A j \in bad : i <= j
         IN  IF bad = {} THEN StreamOk
             ELSE IF ex = "Binance" THEN InvalidSymbol("Invalid symbol")
             ELSE format_symbol_for_exchange(syms[first], ex)

\* cex_exchanges.iter().filter(exchange_supports_websocket)
ws_exchanges(cexs) == SelectSeq(cexs, exchange_supports_websocket)

\* faulty variant: a failed start is skipped like an unsupported venue
FirstFailureSkipped(ws, syms) == 0

\* the first venue whose stream fails to start, 0 if every stream starts
FirstFailure(ws, syms) ==
    LET bad == {i \in 1..Len(ws) : stream_price_websocket(ws[i], syms).state = "err"}
    IN  IF bad = {} THEN 0 ELSE CHOOSE i \in bad : \A j \in bad : i <= j

\* faulty variant: the empty venue list is not an error
NoneSupportedIgnored(ws) == FALSE

\* ws_exchanges.is_empty()
NoneSupported(ws) == ws = <<>>

\* the whole call: with no error the drivers, forwarders and matcher run and
\* the caller holds the snapshot receiver; on the first failed start the
\* function returns, dropping the receivers of the streams already started
ScanArbitrageFromWebsockets ==
    /\ entry = "scan_arbitrage_from_websockets"
    /\ stream_result = Calling
    /\ LET ws == ws_exchanges(cex_exchanges)
           k == FirstFailure(ws, symbols)
           spawned == {ws[i] : i \in 1..(IF k = 0 THEN Len(ws) ELSE k - 1)}
           ok == ~NoneSupported(ws) /\ k = 0
       IN  /\ stream_result' =
                 IF NoneSupported(ws)
                 THEN ApiError("No WebSocket-supported exchanges in the list")
                 ELSE IF k # 0 THEN stream_price_websocket(ws[k], symbols)
                 ELSE StreamOk
           /\ dpc' = [d \in StreamDrivers |-> IF d \in spawned THEN "connect" ELSE "none"]
           /\ attempts' = [d \in StreamDrivers |->
                              IF d \in spawned /\ FixedDelay(d) THEN 1 ELSE 0]
           /\ rx_open' = [d \in StreamDrivers |-> ok /\ d \in spawned]
           /\ fpc' = [d \in StreamDrivers |-> IF ok /\ d \in spawned THEN "recv" ELSE "none"]
           /\ mpc' = IF ok THEN "recv" ELSE "none"
           /\ consumer' = IF ok THEN "open" ELSE "none"
    /\ UNCHANGED <<backoff, pending, chan, fheld, merged, cache, all_opps, out>>
    /\ UNCHANGED <<side_vars, oneshot_vars, entry, fee_overrides, symbols, feed, reconnect,
                   max_attempts, reconnect_attempts, cex_exchanges, window>>

\* the calls: (cex_exchanges, symbols)
StartCalls ==
    {<<<<>>, <<"BTCUSDT">>>>,
     <<<<"Btcturk", "Htx">>, <<"BTCUSDT">>>>,
     <<<<"Btcturk", "Htx">>, <<>>>>,
     <<<<"Btcturk", "Binance", "Htx", "Kraken">>, <<"BTCUSDT">>>>,
     <<<<"Binance", "Kraken">>, <<>>>>,
     <<<<"Binance">>, <<"BTC">>>>,
     <<<<"Binance", "OKX">>, <<"BTC">>>>,
     <<<<"Htx", "OKX", "Binance">>, <<"BTCUSDT", "BTC">>>>}

\* scan_arbitrage_from_websockets has been called
InitStartup ==
    /\ entry = "scan_arbitrage_from_websockets"
    /\ cex_answers = <<>> /\ dex_answers = <<>> /\ returned = NotReturned
    /\ SideIdle
    /\ fee_overrides = NoOverrides
    /\ \E c \in StartCalls : cex_exchanges = c[1] /\ symbols = c[2]
    /\ stream_result = Calling
    /\ feed = Feed /\ window = MaxInFlight
    /\ reconnect \in BOOLEAN /\ max_attempts = <<2>> /\ reconnect_attempts = 0
    /\ dpc = [d \in StreamDrivers |-> "none"]
    /\ attempts = [d \in StreamDrivers |-> 0]
    /\ backoff = [d \in StreamDrivers |-> 1]
    /\ pending = [d \in StreamDrivers |-> NoPrice]
    /\ chan = [d \in StreamDrivers |-> <<>>]
    /\ rx_open = [d \in StreamDrivers |-> FALSE]
    /\ fpc = [d \in StreamDrivers |-> "none"]
    /\ fheld = [d \in StreamDrivers |-> NoPrice]
    /\ merged = <<>> /\ mpc = "none" /\ cache = {}
    /\ all_opps = <<>> /\ out = <<>> /\ consumer = "none"

(***************************************************************************)
(* A book driver's read loop (Kraken, Crypto.com): one symbol's book over  *)
(* one connection.  ReadBookFrame is read.next() returning a frame that    *)
(* reaches the book (a text frame, JSON, of the book channel, with data    *)
(* and a symbol); HandleBookFrame is the rest of the loop body.            *)
(***************************************************************************)
RECURSIVE SeqsUpTo(_, _)
SeqsUpTo(S, n) ==
    IF n = 0 THEN {<<>>}
    ELSE SeqsUpTo(S, n - 1) \cup {Append(s, x) : s \in [1..(n - 1) -> S], x \in S}

\* the tag of a frame: Kraken's "type", Crypto.com's channel
FrameKinds == {"snapshot", "update", "other"}

BookFrames ==
    [kind : FrameKinds,
     bids : SeqsUpTo(BookPrices \X BidSizes, 2),
     asks : SeqsUpTo(BookPrices \X AskSizes, 1)]

\* whether the frame's levels are applied to a cleared book
ClearsNever(venue, kind) == FALSE
Clears(venue, kind) ==
    IF venue = "Kraken" THEN kind = "snapshot" ELSE kind # "update"

\* one side of the book after the frame
side_after(map, levels, venue, kind) ==
    apply_levels(IF Clears(venue, kind) THEN EmptyMap ELSE map, levels)

ReadBookFrame ==
    /\ book_venue \in BookVenues
    /\ frame = NoFrame
    /\ frame' \in BookFrames
    /\ quote' = NoQuote
    /\ UNCHANGED <<book_venue, bids, asks, codec, dex, pool, bfx, feed_vars>>
    /\ UNCHANGED <<oneshot_vars, config_vars, driver_vars, scanner_vars>>

HandleBookFrame ==
    /\ book_venue \in BookVenues
    /\ frame # NoFrame
    /\ LET b == bind(LAMBDA m : side_after(m, frame.bids, book_venue, frame.kind), bids)
           a == bind(LAMBDA m : side_after(m, frame.asks, book_venue, frame.kind), asks)
       IN  /\ bids' = b
           /\ asks' = a
           /\ quote' = best_bid_ask(b, a)
    /\ frame' = NoFrame
    /\ UNCHANGED <<book_venue, codec, dex, pool, bfx, feed_vars>>
    /\ UNCHANGED <<oneshot_vars, config_vars, driver_vars, scanner_vars>>

\* no entry point of the scanner or of a plain driver runs
OthersIdle(e) ==
    /\ entry = e
    /\ cex_answers = <<>> /\ dex_answers = <<>> /\ returned = NotReturned
    /\ fee_overrides = NoOverrides
    /\ StreamIdle

\* the books are created empty with the connection
InitBook ==
    /\ OthersIdle("stream_price_websocket")
    /\ book_venue \in BookVenues
    /\ bids = EmptyMap /\ asks = EmptyMap
    /\ frame = NoFrame /\ quote = NoQuote
    /\ codec = NoCodec /\ dex = NoDex /\ LateIdle

NextBook == ReadBookFrame \/ HandleBookFrame

SpecBook == InitBook /\ [][NextBook]_vars

(***************************************************************************)
(* The same read loop from the wire: a frame is a text that is JSON or is  *)
(* not, and each of its levels is something else than a level, or a level  *)
(* whose price and size are each readable or not.  A field is <<>> when it *)
(* is unreadable and <<n>> when it reads as n.  A frame of the model has   *)
(* levels of one side.  snapshot_applied is whether a snapshot frame has   *)
(* been handled on the connection in use.                                  *)
(***************************************************************************)
Field(readings) == {<<>>} \cup {<<n>> : n \in readings}
NotALevel == <<>>
WireLevels == {NotALevel} \cup (Field(BookPrices \ {0}) \X Field(AskSizes))

\* the connection is made and the books are new
Connected == [kind |-> "connected", json |-> TRUE, bids |-> <<>>, asks |-> <<>>]
NotJson == [kind |-> "", json |-> FALSE, bids |-> <<>>, asks |-> <<>>]
WireFrames ==
    {NotJson}
    \cup [kind : FrameKinds, json : {TRUE}, bids : SeqsUpTo(WireLevels, 1), asks : {<<>>}]
    \cup [kind : FrameKinds, json : {TRUE}, bids : {<<>>}, asks : SeqsUpTo(WireLevels, 1)]

\* as_f64().unwrap_or(0.0), parse().unwrap_or_default()
unwrap_or_zero(field) == IF field = <<>> THEN 0 ELSE field[1]

\* the levels the loop of apply_levels gets to apply: what is not a level is
\* passed over, an unreadable field is 0
RECURSIVE read_levels(_)
read_levels(arr) ==
    IF arr = <<>> THEN <<>>
    ELSE IF Head(arr) = NotALevel THEN read_levels(Tail(arr))
    ELSE <<<<unwrap_or_zero(Head(arr)[1]), unwrap_or_zero(Head(arr)[2])>>>>
         \o read_levels(Tail(arr))

\* read.next() gives a frame and the body of the loop handles it
HandleWireFrame ==
    /\ wire # NoWire
    /\ \E w \in WireFrames :
          /\ wire' = w
          /\ snapshot_applied' = (snapshot_applied \/ (w.json /\ w.kind = "snapshot"))
          /\ IF ~w.json
             THEN bids' = bids /\ asks' = asks /\ quote' = NoQuote
             ELSE LET b == bind(LAMBDA m : side_after(m, read_levels(w.bids),
                                                      book_venue, w.kind), bids)
                      a == bind(LAMBDA m : side_after(m, read_levels(w.asks),
                                                      book_venue, w.kind), asks)
                  IN  bids' = b /\ asks' = a /\ quote' = best_bid_ask(b, a)
    /\ UNCHANGED <<book_venue, frame, codec, dex, pool, bfx>>
    /\ UNCHANGED <<oneshot_vars, config_vars, driver_vars, scanner_vars>>

\* the read loop ends, the driver connects and subscribes again: `books` is
\* a new map
Reconnect ==
    /\ wire # NoWire
    /\ wire' = Connected /\ snapshot_applied' = FALSE
    /\ bids' = EmptyMap /\ asks' = EmptyMap /\ quote' = NoQuote
    /\ UNCHANGED <<book_venue, frame, codec, dex, pool, bfx>>
    /\ UNCHANGED <<oneshot_vars, config_vars, driver_vars, scanner_vars>>

InitFeed ==
    /\ OthersIdle("stream_price_websocket")
    /\ book_venue \in BookVenues
    /\ bids = EmptyMap /\ asks = EmptyMap
    /\ frame = NoFrame /\ quote = NoQuote
    /\ codec = NoCodec /\ dex = NoDex /\ pool = NoPool /\ bfx = NoBfx
    /\ wire = Connected /\ snapshot_applied = FALSE

NextFeed == HandleWireFrame \/ Reconnect

SpecFeed == InitFeed /\ [][NextFeed]_vars

(***************************************************************************)
(* The symbol of one request on its way out and back: formatted for the    *)
(* venue's REST or WebSocket API, then the venue's text made standard      *)
(* again for the quote.                                                    *)
(***************************************************************************)
Bases == {<<"T">>, <<"O", "P">>, BTC, <<"E", "T", "H">>, <<"D", "O", "G", "E">>}
Quotes == {USDT, USD, KRW, BTC, <<"E", "T", "H">>, <<"E", "U", "R">>}

\* uppercase, no separator, not empty
CanonicalSymbols == Bases \cup {b \o q : b \in Bases, q \in Quotes}

FormatSymbolForExchange ==
    /\ codec.pc = "start"
    /\ LET f == format_symbol_text(codec.symbol, codec.exchange)
       IN  codec' = [codec EXCEPT !.wire = f,
                                  !.pc = IF f.ok THEN "rest" ELSE "failed"]
    /\ UNCHANGED <<book_vars, dex, pool, bfx, feed_vars, oneshot_vars, config_vars, driver_vars, scanner_vars>>

FormatSymbolForExchangeWs ==
    /\ codec.pc = "start"
    /\ LET f == format_symbol_for_exchange_ws(codec.symbol, codec.exchange)
       IN  codec' = [codec EXCEPT !.wire = f,
                                  !.pc = IF f.ok THEN "ws" ELSE "failed"]
    /\ UNCHANGED <<book_vars, dex, pool, bfx, feed_vars, oneshot_vars, config_vars, driver_vars, scanner_vars>>

StandardSymbol ==
    /\ codec.pc \in {"rest", "ws"}
    /\ codec' = [codec EXCEPT
                    !.standard = standard_symbol_for_cex_ws_response(codec.wire.text,
                                                                     codec.exchange),
                    !.pc = IF codec.pc = "rest" THEN "rest_done" ELSE "ws_done"]
    /\ UNCHANGED <<book_vars, dex, pool, bfx, feed_vars, oneshot_vars, config_vars, driver_vars, scanner_vars>>

InitCodec ==
    /\ OthersIdle("format_symbol_for_exchange")
    /\ BookIdle /\ dex = NoDex /\ LateIdle
    /\ \E c \in CanonicalSymbols, v \in CexExchange :
          codec = [pc |-> "start", symbol |-> c, exchange |-> v, wire |-> TooShort,
                   standard |-> <<>>]

NextCodec == FormatSymbolForExchange \/ FormatSymbolForExchangeWs \/ StandardSymbol

SpecCodec == InitCodec /\ [][NextCodec]_vars

(***************************************************************************)
(* The DEX client: KyberSwap's get_price, one step per HTTP exchange.      *)
(* Amounts are the decimal strings of the API, kept as digit sequences;    *)
(* a price divided out of them is kept as the class of the quotient.       *)
(***************************************************************************)
Token(symbol, decimal, chain_id) ==
    [symbol |-> symbol, decimal |-> decimal, chain_id |-> chain_id]

\* tokens of the Ethereum, Base and BSC tables
BaseTokens  == {Token("ETH", 18, "ETHEREUM"), Token("WBTC", 8, "ETHEREUM"),
                Token("ETH", 18, "BASE"), Token("BNB", 18, "BSC")}
QuoteTokens == {Token("USDT", 6, "ETHEREUM"), Token("USDC", 6, "BASE"),
                Token("USDT", 18, "BSC")}

Zeros(n) == [i \in 1..n |-> "0"]

\* format!("{:.0}", 1000.0)
usd_amount == <<"1", "0", "0", "0">>

\* the value followed by `decimals` zeros
calculate_amount_for_value(usd_value, decimals) == usd_value \o Zeros(decimals)

\* a GET of /routes on the chain of the base token
RoutesQuery(token_in, token_out, amount_in) ==
    [token_in |-> token_in, token_out |-> token_out, amount_in |-> amount_in]

\* what the aggregator can put in amountOut: zero, a small amount, the
\* thousand units of an 8 or 18 decimal token, an empty string
RouteAmounts == {<<"0">>, <<"4", "2">>, calculate_amount_for_value(usd_amount, 8),
                 calculate_amount_for_value(usd_amount, 18), <<>>}

\* the ways an exchange with the API ends: transport error, status not 2xx,
\* code not 0, no data, or a route summary that repeats the amount asked for
RoutesReplies(query) ==
    {[kind |-> k, amount_in |-> <<>>, amount_out |-> <<>>] :
        k \in {"http_error", "status", "code", "no_data"}}
    \cup {[kind |-> "data", amount_in |-> query.amount_in, amount_out |-> a] :
             a \in RouteAmounts}

\* parse::<f64>() of an amount succeeds
parse_f64_ok(value) == value # <<>>

\* the amount parses to 0.0
is_zero(amount) == amount # <<>> /\ \A i \in 1..Len(amount) : amount[i] = "0"

\* the `/` of two f64 parsed from amounts, by the class of its result: a zero
\* divisor gives an infinity, or NaN when the dividend is zero as well
f64_divide(numerator, divisor) ==
    IF ~is_zero(divisor) THEN "finite"
    ELSE IF is_zero(numerator) THEN "NaN" ELSE "inf"

DexErr(e) == [ok |-> FALSE, error |-> e]

\* the error a reply is turned into, <<>> if none
reply_error(reply) ==
    CASE reply.kind = "http_error" -> <<"HttpError">>
      [] reply.kind \in {"status", "code", "no_data"} -> <<"ApiError">>
      [] ~parse_f64_ok(reply.amount_in) \/ ~parse_f64_ok(reply.amount_out) -> <<"ApiError">>
      [] OTHER -> <<>>

DexRouteSummary(query, reply) ==
    [token_in |-> query.token_in.symbol, token_out |-> query.token_out.symbol,
     amount_in |-> reply.amount_in, amount_out |-> reply.amount_out]

\* the chain check, then the ASK query: base for quote, a thousand units of base
\* faulty variant: the ASK query goes out before the chains are compared
GetPriceQueriesFirst ==
    /\ dex.pc = "start"
    /\ LET sent == <<RoutesQuery(dex.base_token, dex.quote_token,
                        calculate_amount_for_value(usd_amount, dex.base_token.decimal))>>
       IN  IF dex.base_token.chain_id # dex.quote_token.chain_id
           THEN dex' = [dex EXCEPT !.pc = "done", !.queries = sent,
                                   !.result = DexErr("InvalidSymbol")]
           ELSE dex' = [dex EXCEPT !.pc = "ask_sent", !.queries = sent]
    /\ UNCHANGED <<book_vars, codec, pool, bfx, feed_vars, oneshot_vars, config_vars, driver_vars, scanner_vars>>

GetPrice ==
    /\ dex.pc = "start"
    /\ IF dex.base_token.chain_id # dex.quote_token.chain_id
       THEN dex' = [dex EXCEPT !.pc = "done", !.result = DexErr("InvalidSymbol")]
       ELSE dex' = [dex EXCEPT
                       !.pc = "ask_sent",
                       !.queries = <<RoutesQuery(dex.base_token, dex.quote_token,
                                        calculate_amount_for_value(usd_amount,
                                                                   dex.base_token.decimal))>>]
    /\ UNCHANGED <<book_vars, codec, pool, bfx, feed_vars, oneshot_vars, config_vars, driver_vars, scanner_vars>>

\* the ASK reply, then the BID query: quote for base, a thousand units of quote
AskResponse ==
    /\ dex.pc = "ask_sent"
    /\ \E reply \in RoutesReplies(dex.queries[1]) :
          IF reply_error(reply) # <<>>
          THEN dex' = [dex EXCEPT !.pc = "done", !.result = DexErr(reply_error(reply)[1])]
          ELSE dex' = [dex EXCEPT
                          !.pc = "bid_sent",
                          !.ask_data = DexRouteSummary(dex.queries[1], reply),
                          !.queries = Append(dex.queries,
                                         RoutesQuery(dex.quote_token, dex.base_token,
                                            calculate_amount_for_value(usd_amount,
                                                                       dex.quote_token.decimal)))]
    /\ UNCHANGED <<book_vars, codec, pool, bfx, feed_vars, oneshot_vars, config_vars, driver_vars, scanner_vars>>

\* the BID reply, then the DexPrice
BidResponse ==
    /\ dex.pc = "bid_sent"
    /\ \E reply \in RoutesReplies(dex.queries[2]) :
          IF reply_error(reply) # <<>>
          THEN dex' = [dex EXCEPT !.pc = "done", !.result = DexErr(reply_error(reply)[1])]
          ELSE dex' = [dex EXCEPT
                          !.pc = "done",
                          !.result = [ok |-> TRUE,
                                      symbol |-> <<dex.base_token.symbol, dex.quote_token.symbol>>,
                                      bid_price |-> f64_divide(reply.amount_in, reply.amount_out),
                                      ask_price |-> f64_divide(dex.ask_data.amount_out,
                                                               dex.ask_data.amount_in),
                                      bid_route_summary |-> DexRouteSummary(dex.queries[2], reply),
                                      ask_route_summary |-> dex.ask_data]]
    /\ UNCHANGED <<book_vars, codec, pool, bfx, feed_vars, oneshot_vars, config_vars, driver_vars, scanner_vars>>

InitDex ==
    /\ OthersIdle("get_price")
    /\ BookIdle /\ codec = NoCodec /\ LateIdle
    /\ \E b \in BaseTokens, q \in QuoteTokens :
          dex = [NoDex EXCEPT !.pc = "start", !.base_token = b, !.quote_token = q]

NextDex == GetPrice \/ AskResponse \/ BidResponse

SpecDex == InitDex /\ [][NextDex]_vars

(***************************************************************************)
(* The pool listener, dex/pool_listener/mod.rs: stream_pool_prices spawns   *)
(* a task that runs run_listener once per connection and sleeps between     *)
(* the runs.  An update is kept as its block number.                       *)
(***************************************************************************)
MaxBlock == 2
Blocks == 0..MaxBlock

\* the updates the model lets wait in the channel
PoolWindow == 2

ListenModes == {"EveryBlock", "OnSwapEvent"}
ReconnectAttempts == {0, 1, 2}

\* the updates sent with each block number, counted up to two
Counted(updates, block_number) ==
    [updates EXCEPT ![block_number] = IF @ < 2 THEN @ + 1 ELSE @]

\* after run_listener has returned, Ok or Err: break, or sleep and run again
AfterRunListener(p) ==
    IF p.reconnect_attempts = 0 \/ p.attempt > p.reconnect_attempts
    THEN [p EXCEPT !.pc = "exited"]
    ELSE [p EXCEPT !.pc = "sleep"]

\* tx.send(update).await of run_listener: the update is queued, or the
\* receiver is gone and the loop is left
SendUpdate(p, block_number) ==
    IF p.rx_open
    THEN [p EXCEPT !.chan = Append(@, block_number),
                   !.updates = Counted(@, block_number)]
    ELSE AfterRunListener(p)

\* tx.send(update).await can return
CanSend(p) == ~p.rx_open \/ Len(p.chan) < PoolWindow

\* attempt += 1 and run_listener up to its loop: connect, fetch_decimals and
\* the subscription succeed, or one of them fails and run_listener returns Err
RunListener ==
    /\ pool.pc = "run"
    /\ \E ok \in BOOLEAN :
          LET p == [pool EXCEPT !.attempt = @ + 1, !.last_emitted_block = <<>>]
          IN  pool' = IF ok THEN [p EXCEPT !.pc = "listen"] ELSE AfterRunListener(p)
    /\ UNCHANGED <<book_vars, codec, dex, bfx, feed_vars>>
    /\ UNCHANGED <<oneshot_vars, config_vars, driver_vars, scanner_vars>>

\* EveryBlock: the block stream yields, get_block_number answers
\* block_number (0 when it fails), fetch_price succeeds or not
BlockEvent ==
    /\ pool.pc = "listen" /\ pool.listen_mode = "EveryBlock"
    /\ CanSend(pool)
    /\ \E block_number \in Blocks, fetched \in BOOLEAN :
          IF pool.last_emitted_block = <<>> \/ block_number > pool.last_emitted_block[1]
          THEN LET p == [pool EXCEPT !.last_emitted_block = <<block_number>>]
               IN  pool' = IF fetched THEN SendUpdate(p, block_number) ELSE p
          ELSE pool' = pool
    /\ UNCHANGED <<book_vars, codec, dex, bfx, feed_vars>>
    /\ UNCHANGED <<oneshot_vars, config_vars, driver_vars, scanner_vars>>

\* OnSwapEvent: the log stream yields a Swap log of block block_number
SwapEvent ==
    /\ pool.pc = "listen" /\ pool.listen_mode = "OnSwapEvent"
    /\ CanSend(pool)
    /\ \E block_number \in Blocks, fetched \in BOOLEAN :
          pool' = IF fetched THEN SendUpdate(pool, block_number) ELSE pool
    /\ UNCHANGED <<book_vars, codec, dex, bfx, feed_vars>>
    /\ UNCHANGED <<oneshot_vars, config_vars, driver_vars, scanner_vars>>

\* the stream of the subscription ends: run_listener returns Ok
StreamEnded ==
    /\ pool.pc = "listen"
    /\ pool' = AfterRunListener(pool)
    /\ UNCHANGED <<book_vars, codec, dex, bfx, feed_vars>>
    /\ UNCHANGED <<oneshot_vars, config_vars, driver_vars, scanner_vars>>

\* tokio::time::sleep(delay) is over
PoolWake ==
    /\ pool.pc = "sleep"
    /\ pool' = [pool EXCEPT !.pc = "run"]
    /\ UNCHANGED <<book_vars, codec, dex, bfx, feed_vars>>
    /\ UNCHANGED <<oneshot_vars, config_vars, driver_vars, scanner_vars>>

\* the consumer takes an update
PoolRecv ==
    /\ pool.rx_open /\ pool.chan # <<>>
    /\ pool' = [pool EXCEPT !.chan = Tail(@)]
    /\ UNCHANGED <<book_vars, codec, dex, bfx, feed_vars>>
    /\ UNCHANGED <<oneshot_vars, config_vars, driver_vars, scanner_vars>>

\* the consumer drops the receiver
PoolDrop ==
    /\ pool.rx_open
    /\ pool' = [pool EXCEPT !.rx_open = FALSE, !.chan = <<>>]
    /\ UNCHANGED <<book_vars, codec, dex, bfx, feed_vars>>
    /\ UNCHANGED <<oneshot_vars, config_vars, driver_vars, scanner_vars>>

\* stream_pool_prices(config) has returned Ok(rx)
InitPool ==
    /\ OthersIdle("stream_pool_prices")
    /\ BookIdle /\ codec = NoCodec /\ dex = NoDex
    /\ bfx = NoBfx /\ wire = NoWire /\ snapshot_applied = FALSE
    /\ \E m \in ListenModes, r \in ReconnectAttempts :
          pool = [pc |-> "run", listen_mode |-> m, reconnect_attempts |-> r,
                  attempt |-> 0, last_emitted_block |-> <<>>, rx_open |-> TRUE,
                  chan |-> <<>>, updates |-> [b \in Blocks |-> 0]]

NextPool ==
    \/ RunListener \/ BlockEvent \/ SwapEvent \/ StreamEnded \/ PoolWake
    \/ PoolRecv \/ PoolDrop

SpecPool == InitPool /\ [][NextPool]_vars

(***************************************************************************)
(* cex/bitfinex: the ticker stream.  One subscribe message per symbol; the *)
(* venue acknowledges each with a channel id and names later ticker frames *)
(* by that id only.  bfx.acked is the acknowledgements the venue has sent  *)
(* on the connection in use (channel id -> the symbol of the frame);       *)
(* bfx.subscribed is the symbols whose subscribe was sent on it; bfx.frame *)
(* is the frame the read loop handled last.                                *)
(***************************************************************************)
ChanIds == {1, 2}
BfxRequest == <<"BTCUSDT", "ETHUSDT">>

\* symbols.iter().map(format_symbol_for_exchange_ws).collect()
bitfinex_symbols(request) ==
    [i \in 1..Len(request) |-> format_symbol_for_exchange_ws(Chars(request[i]), "Bitfinex").text]

\* the frames of the venue: acknowledgements and other events, tickers,
\* anything else
BfxEvents ==
    [kind : {"event"}, event : {"subscribed", "unsubscribed"}, chan_id : ChanIds,
     symbol : {bitfinex_symbols(BfxRequest)[i] : i \in 1..Len(BfxRequest)},
     bid : {0}, ask : {0}]
BfxTickers ==
    [kind : {"ticker"}, event : {""}, chan_id : ChanIds \cup {3}, symbol : {<<>>},
     bid : {0, 1}, ask : {0, 2}]
BfxFrames ==
    BfxEvents \cup BfxTickers
    \cup {[kind |-> "other", event |-> "", chan_id |-> 0, symbol |-> <<>>,
           bid |-> 0, ask |-> 0]}

\* the connect Err arm
BfxConnectErr(b) ==
    IF ~b.reconnect \/ ~b.rx_open THEN [b EXCEPT !.pc = "exited"]
    ELSE IF b.max_attempts # <<>> /\ b.attempts + 1 >= b.max_attempts[1]
    THEN [b EXCEPT !.pc = "exited", !.attempts = @ + 1]
    ELSE [b EXCEPT !.pc = "sleep", !.attempts = @ + 1]

\* the connect Ok arm: backoff and attempts start over, the subscribe loop
\* begins
BfxConnectOk(b) ==
    [b EXCEPT !.pc = "subscribe", !.backoff = 1, !.attempts = 0, !.next = 1,
              !.subscribed = {}, !.acked = EmptyMap]

\* ws_stream.split() and the new chan_to_symbol map of the connection
EnterReadKeepsChannels(b) == [b EXCEPT !.pc = "read"]
EnterRead(b) == [b EXCEPT !.pc = "read", !.chan_to_symbol = EmptyMap]

\* one turn of the loop over bitfinex_symbols: the subscribe message is
\* sent, or the send fails and the loop is left
SubscribeSend(b, sent) ==
    IF ~sent THEN EnterRead(b)
    ELSE LET s == [b EXCEPT !.subscribed = @ \cup {b.bitfinex_symbols[b.next]},
                            !.next = @ + 1]
         IN  IF s.next > Len(s.bitfinex_symbols) THEN EnterRead(s) ELSE s

\* tx.send(price).await: queued, or the receiver is gone and the task returns
BfxSend(b, price) ==
    IF b.rx_open THEN [b EXCEPT !.chan = Append(@, price)]
    ELSE [b EXCEPT !.pc = "returned"]

\* the body of the read loop for one frame that is JSON
BfxHandle(b, f) ==
    LET seen == [b EXCEPT !.frame = f]
    IN  IF f.kind = "event"
        THEN IF f.event = "subscribed"
             THEN [seen EXCEPT
                      !.chan_to_symbol =
                          btree_insert(@, f.chan_id,
                                       standard_symbol_for_cex_ws_response(f.symbol, "Bitfinex")),
                      !.acked = btree_insert(@, f.chan_id, f.symbol)]
             ELSE seen
        ELSE IF f.kind # "ticker" THEN seen
        ELSE IF f.chan_id \notin DOMAIN b.chan_to_symbol THEN seen
        ELSE IF ~(f.bid > 0) \/ ~(f.ask > 0) THEN seen
        ELSE BfxSend(seen, [symbol |-> b.chan_to_symbol[f.chan_id],
                            bid_price |-> f.bid, ask_price |-> f.ask])

\* the frame f ends in tx.send
BfxSends(b, f) ==
    /\ f.kind = "ticker" /\ f.chan_id \in DOMAIN b.chan_to_symbol
    /\ f.bid > 0 /\ f.ask > 0

BfxIdleOthers ==
    /\ UNCHANGED <<book_vars, codec, dex, pool, feed_vars>>
    /\ UNCHANGED <<oneshot_vars, config_vars, driver_vars, scanner_vars>>

\* connect_async(BITFINEX_WS_URL)
BfxConnect ==
    /\ bfx.pc = "connect"
    /\ \E ok \in BOOLEAN :
          /\ ~ok => bfx.attempts < MaxFailures
          /\ bfx' = IF ok THEN BfxConnectOk(bfx) ELSE BfxConnectErr(bfx)
    /\ BfxIdleOthers

\* sleep(backoff) is over: backoff doubles up to max_backoff, and `continue`
BfxWake ==
    /\ bfx.pc = "sleep"
    /\ bfx' = [bfx EXCEPT !.pc = "connect",
                          !.backoff = IF 2 * @ > MaxBackoff THEN MaxBackoff ELSE 2 * @]
    /\ BfxIdleOthers

BfxSubscribe ==
    /\ bfx.pc = "subscribe"
    /\ \E sent \in BOOLEAN : bfx' = SubscribeSend(bfx, sent)
    /\ BfxIdleOthers

\* read.next() gives a text frame that is JSON
BfxRead ==
    /\ bfx.pc = "read"
    /\ \E f \in BfxFrames :
          /\ (BfxSends(bfx, f) /\ bfx.rx_open) => Len(bfx.chan) < MaxInFlight
          /\ bfx' = BfxHandle(bfx, f)
    /\ BfxIdleOthers

\* read.next() gives None or an error: break, or connect again at once
BfxStreamEnd ==
    /\ bfx.pc = "read"
    /\ bfx' = IF ~bfx.reconnect \/ ~bfx.rx_open
              THEN [bfx EXCEPT !.pc = "exited"]
              ELSE [bfx EXCEPT !.pc = "connect"]
    /\ BfxIdleOthers

\* the caller takes a quote
BfxRecv ==
    /\ bfx.rx_open /\ bfx.chan # <<>>
    /\ bfx' = [bfx EXCEPT !.chan = Tail(@)]
    /\ BfxIdleOthers

\* the caller drops the receiver
BfxDrop ==
    /\ bfx.rx_open
    /\ bfx' = [bfx EXCEPT !.rx_open = FALSE, !.chan = <<>>]
    /\ BfxIdleOthers

\* stream_price_websocket(symbols, reconnect, max_attempts) of Bitfinex has
\* returned Ok(rx)
InitBfx ==
    /\ OthersIdle("stream_price_websocket")
    /\ BookIdle /\ codec = NoCodec /\ dex = NoDex
    /\ pool = NoPool /\ wire = NoWire /\ snapshot_applied = FALSE
    /\ \E r \in BOOLEAN, m \in {<<>>, <<1>>, <<2>>} :
          bfx = [NoBfx EXCEPT !.pc = "connect", !.reconnect = r, !.max_attempts = m,
                              !.bitfinex_symbols = bitfinex_symbols(BfxRequest),
                              !.rx_open = TRUE]

NextBfx ==
    \/ BfxConnect \/ BfxWake \/ BfxSubscribe \/ BfxRead \/ BfxStreamEnd
    \/ BfxRecv \/ BfxDrop

SpecBfx == InitBfx /\ [][NextBfx]_vars

Init == InitOneShot \/ InitDrivers \/ InitScanner

Next ==
    \/ OpportunitiesFromPrices
    \/ ScanArbitrageOpportunities
    \/ \E d \in StreamDrivers : DriverStep(d) \/ CallerRecv(d) \/ CallerDrop(d)
    \/ \E d \in StreamDrivers : ForwarderStep(d)
    \/ MatcherStep
    \/ ConsumerStep

Spec == Init /\ [][Next]_vars

\* every entry point, the streaming scanner asked for two symbols
InitSymbols == InitOneShot \/ InitDrivers \/ InitScannerWith(ScanSymbols, Feed)

SpecSymbols == InitSymbols /\ [][Next]_vars

\* the one-shot entry points alone
NextOneShot == OpportunitiesFromPrices \/ ScanArbitrageOpportunities

SpecOneShot == InitOneShot /\ [][NextOneShot]_vars

\* a venue driver and the caller that holds its receiver
NextDriver == \E d \in StreamDrivers : DriverStep(d) \/ CallerRecv(d) \/ CallerDrop(d)

SpecDriver == InitDrivers /\ [][NextDriver]_vars

\* the streaming call from its start
NextStartup ==
    \/ ScanArbitrageFromWebsockets
    \/ \E d \in StreamDrivers : DriverStep(d)
    \/ \E d \in StreamDrivers : ForwarderStep(d)
    \/ MatcherStep
    \/ ConsumerStep

SpecStartup == InitStartup /\ [][NextStartup]_vars

\* the running scanner with venues that publish faster than the tasks take:
\* up to OrderWindow quotes and snapshots are on their way
OrderWindow == MaxInFlight + 2

InitOrder ==
    /\ entry = "scan_arbitrage_from_websockets"
    /\ cex_answers = <<>> /\ dex_answers = <<>> /\ returned = NotReturned
    /\ SideIdle
    /\ fee_overrides = NoOverrides
    /\ symbols = StreamSymbols
    /\ feed = {<<PriceBase, PriceBase>>, <<PriceHigh, PriceHigh>>}
    /\ cex_exchanges = ScannerCex /\ stream_result = StreamOk /\ window = OrderWindow
    /\ reconnect = FALSE /\ max_attempts = <<>> /\ reconnect_attempts = 0
    /\ dpc = [d \in StreamDrivers |->
                 IF \E i \in 1..Len(ScannerCex) : ScannerCex[i] = d THEN "connect" ELSE "none"]
    /\ attempts = [d \in StreamDrivers |-> 0]
    /\ backoff = [d \in StreamDrivers |-> 1]
    /\ pending = [d \in StreamDrivers |-> NoPrice]
    /\ chan = [d \in StreamDrivers |-> <<>>]
    /\ rx_open = [d \in StreamDrivers |-> dpc[d] = "connect"]
    /\ fpc = [d \in StreamDrivers |-> IF dpc[d] = "connect" THEN "recv" ELSE "none"]
    /\ fheld = [d \in StreamDrivers |-> NoPrice]
    /\ merged = <<>> /\ mpc = "recv" /\ cache = {}
    /\ all_opps = <<>> /\ out = <<>> /\ consumer = "open"

\* the running scanner of one venue that publishes one quote over and over,
\* fast enough to fill its driver's channel and more
BacklogWindow == DriverChannelCap + 1

InitBacklog ==
    /\ entry = "scan_arbitrage_from_websockets"
    /\ cex_answers = <<>> /\ dex_answers = <<>> /\ returned = NotReturned
    /\ SideIdle
    /\ fee_overrides = NoOverrides
    /\ symbols = StreamSymbols /\ feed = {<<PriceBase, PriceBase>>}
    /\ cex_exchanges = <<"Binance">> /\ stream_result = StreamOk
    /\ window = BacklogWindow
    /\ reconnect = FALSE /\ max_attempts = <<>> /\ reconnect_attempts = 0
    /\ dpc = [d \in StreamDrivers |-> IF d = "Binance" THEN "connect" ELSE "none"]
    /\ attempts = [d \in StreamDrivers |-> 0]
    /\ backoff = [d \in StreamDrivers |-> 1]
    /\ pending = [d \in StreamDrivers |-> NoPrice]
    /\ chan = [d \in StreamDrivers |-> <<>>]
    /\ rx_open = [d \in StreamDrivers |-> dpc[d] = "connect"]
    /\ fpc = [d \in StreamDrivers |-> IF dpc[d] = "connect" THEN "recv" ELSE "none"]
    /\ fheld = [d \in StreamDrivers |-> NoPrice]
    /\ merged = <<>> /\ mpc = "recv" /\ cache = {}
    /\ all_opps = <<>> /\ out = <<>> /\ consumer = "open"

(***************************************************************************)
(* The streaming runtime under the scheduler's guarantees.  tokio polls    *)
(* every spawned task that can make progress, a connection attempt, a      *)
(* subscribe and a sleep come to an end, a live venue keeps publishing and *)
(* a consumer that holds the receiver keeps polling it.  Nothing obliges   *)
(* a venue to disconnect or a consumer to drop the receiver.               *)
(***************************************************************************)
InitStream == InitDrivers \/ InitScanner

NextStream ==
    \/ \E d \in StreamDrivers : DriverStep(d) \/ CallerRecv(d) \/ CallerDrop(d)
    \/ \E d \in StreamDrivers : ForwarderStep(d)
    \/ MatcherStep
    \/ ConsumerStep

DriverProgress(d) ==
    \/ ConnectErr(d) \/ ConnectOk(d) \/ SubscribeOk(d) \/ SubscribeErr(d)
    \/ Wake(d) \/ ReadFrame(d) \/ SendOk(d) \/ SendErr(d)

Fairness ==
    /\ \A d \in StreamDrivers : WF_vars(DriverProgress(d))
    /\ \A d \in StreamDrivers : WF_vars(ForwarderStep(d))
    /\ WF_vars(MatcherStep)
    /\ WF_vars(ConsumerRecv \/ ConsumerNone)

FairStream == InitStream /\ [][NextStream]_vars /\ Fairness

\* the drivers alone, the scanner, and the one-venue scanner with a backlog
SpecBacklog == (InitStream \/ InitBacklog) /\ [][NextStream]_vars

\* the drivers alone, the scanner, and the scanner with fast venues
SpecOrder == (InitStream \/ InitOrder) /\ [][NextStream]_vars

(***************************************************************************)
(* Properties.                                                             *)
(***************************************************************************)
\* the lists the program has handed out or is handing out: the value an
\* entry point returned, the snapshot the matcher is sending, the snapshots
\* on the output channel
Emitted ==
    (IF returned.done THEN {returned.value} ELSE {})
        \cup (IF mpc = "send" THEN {all_opps} ELSE {})
        \cup {out[i] : i \in 1..Len(out)}

ComputeReturned == entry = "opportunities_from_prices" /\ returned.done
ScanOnceReturned == entry = "scan_arbitrage_opportunities" /\ returned.done
Scanning == entry = "scan_arbitrage_from_websockets"

\* 0.01 percent
Threshold == [num |-> 1, den |-> 100 * 100]

QuoteOk(q) == q.bid_price > 0 /\ q.ask_price > 0 /\ q.mid_price > 0

SortedDesc(L) ==
    \A i, j \in 1..Len(L) :
        i < j => PctGe(L[i].spread_percentage, L[j].spread_percentage)

\* C1: the matcher's cache never holds an invalid quote (bid <= 0, ask <= 0
\* or mid <= 0), and the step that takes an invalid quote off the merged
\* channel leaves the cache as it is, so no stored valid quote is replaced by
\* an invalid one.
C1_CacheKeepsValidQuotes ==
    /\ [](\A q \in cache : QuoteOk(q))
    /\ [][/\ (mpc = "recv" /\ merged # <<>> /\ ~QuoteOk(Head(merged))
                 /\ merged' = Tail(merged)) => cache' = cache
          /\ \A q \in cache : \A r \in cache' :
                 (QuoteOk(q) /\ SameKey(q, r)) => QuoteOk(r)]_vars

\* an invalid quote reaches the matcher for a key whose valid quote is stored
C1_Witness ==
    /\ mpc = "recv" /\ merged # <<>>
    /\ ~QuoteOk(Head(merged))
    /\ \E q \in cache : SameKey(q, Head(merged))

\* C2: every opportunity returned by opportunities_from_prices, returned by
\* scan_arbitrage_opportunities or held in a streaming snapshot has
\* effective_bid > effective_ask strictly and spread_percentage >= 0.01, the
\* percentage being that of its own effective prices.
C2_SpreadAboveThreshold ==
    \A L \in Emitted : \A k \in 1..Len(L) :
        /\ L[k].effective_bid > L[k].effective_ask
        /\ L[k].spread = L[k].effective_bid - L[k].effective_ask
        /\ L[k].spread_percentage = [num |-> L[k].spread, den |-> L[k].effective_ask]
        /\ PctGe(L[k].spread_percentage, Threshold)

\* an opportunity at exactly 0.01 percent was returned, while another pair of
\* the same input had a positive spread below it
C2_Witness ==
    /\ ComputeReturned
    /\ \E k \in 1..Len(returned.value) :
          LET o == returned.value[k]
          IN  /\ o.effective_ask % (100 * 100) = 0
              /\ o.spread = o.effective_ask \div (100 * 100)
    /\ \E i, j \in 1..Len(cex_answers) :
          /\ i # j /\ cex_answers[i] # Err /\ cex_answers[j] # Err
          /\ LET ea == effective_price_with_overrides(cex_answers[i].ask_price,
                           cex_answers[i].exchange, "Buy", fee_overrides)
                 eb == effective_price_with_overrides(cex_answers[j].bid_price,
                           cex_answers[j].exchange, "Sell", fee_overrides)
             IN  eb > ea /\ ~PctGe([num |-> eb - ea, den |-> ea], Threshold)

\* C3: the list opportunities_from_prices returns is sorted descending by
\* spread_percentage: for all i < j, L[i].spread_percentage >=
\* L[j].spread_percentage.
C3_ComputeSorted == ComputeReturned => SortedDesc(returned.value)

\* C4: every list scan_arbitrage_opportunities returns and every snapshot
\* the matcher emits on the output channel is sorted descending by
\* spread_percentage.
C4_EmittedSorted ==
    /\ ScanOnceReturned => SortedDesc(returned.value)
    /\ mpc = "send" => SortedDesc(all_opps)
    /\ \A i \in 1..Len(out) : SortedDesc(out[i])

\* a snapshot on the output channel whose better opportunity is of the symbol
\* the matcher visits second
C4_Witness ==
    \E i \in 1..Len(out) :
        /\ Len(out[i]) = 2
        /\ out[i][1].symbol = symbols[2] /\ out[i][2].symbol = symbols[1]
        /\ ~PctGe(out[i][2].spread_percentage, out[i][1].spread_percentage)

\* the quotes handed to the matcher by a one-shot entry point
InputQuotes == fetch_prices(cex_answers) \o fetch_prices(dex_answers)

\* C5: opportunities_from_prices emits exactly one opportunity for every
\* ordered pair (buy quote b, sell quote s) of its input quotes that come from
\* different venues and have effective_bid(s) > effective_ask(b) and
\* spread_percentage >= 0.01, and no opportunity for any other pair or of any
\* other origin.
C5_OnePerQualifyingPair ==
    ComputeReturned =>
        LET L == returned.value
            Q == InputQuotes
        IN  /\ \A i, j \in 1..Len(Q) :
                  LET ea == effective_price_with_overrides(Q[i].ask_price,
                                Q[i].exchange, "Buy", fee_overrides)
                      eb == effective_price_with_overrides(Q[j].bid_price,
                                Q[j].exchange, "Sell", fee_overrides)
                      qualifies ==
                          /\ exchange_name(Q[i].exchange) # exchange_name(Q[j].exchange)
                          /\ eb > ea
                          /\ PctGe([num |-> eb - ea, den |-> ea], Threshold)
                  IN  Cardinality({k \in 1..Len(L) :
                          L[k].source_leg = Q[i] /\ L[k].destination_leg = Q[j]})
                      = IF qualifies THEN 1 ELSE 0
            /\ \A k \in 1..Len(L) : \E i, j \in 1..Len(Q) :
                  L[k].source_leg = Q[i] /\ L[k].destination_leg = Q[j]

\* three venues answered, two pairs qualify and a pair of different venues
\* with a positive spread does not
C5_Witness ==
    /\ ComputeReturned
    /\ Len(InputQuotes) = 3
    /\ Len(returned.value) >= 2
    /\ \E i, j \in 1..Len(InputQuotes) :
          LET ea == effective_price_with_overrides(InputQuotes[i].ask_price,
                        InputQuotes[i].exchange, "Buy", fee_overrides)
              eb == effective_price_with_overrides(InputQuotes[j].bid_price,
                        InputQuotes[j].exchange, "Sell", fee_overrides)
          IN  i # j /\ eb > ea /\ ~PctGe([num |-> eb - ea, den |-> ea], Threshold)

\* C6: no opportunity has its source venue equal to its destination venue,
\* the venues being compared by their name strings, which are the names of
\* the venues of its two legs.
C6_DistinctVenues ==
    \A L \in Emitted : \A k \in 1..Len(L) :
        /\ L[k].source_exchange # L[k].destination_exchange
        /\ L[k].source_exchange = exchange_name(L[k].source_leg.exchange)
        /\ L[k].destination_exchange = exchange_name(L[k].destination_leg.exchange)

\* a venue answered with a bid whose effective price is above that of its own
\* ask, and opportunities were returned
C6_Witness ==
    /\ returned.done /\ returned.value # <<>>
    /\ \E i \in 1..Len(InputQuotes) :
          effective_price_with_overrides(InputQuotes[i].bid_price,
              InputQuotes[i].exchange, "Sell", fee_overrides)
          > effective_price_with_overrides(InputQuotes[i].ask_price,
              InputQuotes[i].exchange, "Buy", fee_overrides)

\* every task of the streaming scanner is over
AllTasksOver ==
    /\ mpc = "done"
    /\ \A d \in StreamDrivers : fpc[d] \in {"none", "done"} /\ ~Running(d)

\* C7: in streaming-scanner mode, after the consumer has dropped the snapshot
\* receiver, the matcher task, every forwarder task and every venue driver
\* task eventually terminate.
C7_DropStopsAllTasks == (Scanning /\ consumer = "dropped") ~> AllTasksOver

\* C8: a streaming driver never begins a connection attempt when its quote
\* receiver has already been dropped.
C8_NoConnectAfterDrop ==
    [][\A d \in StreamDrivers :
          (dpc[d] # "connect" /\ dpc'[d] = "connect") => rx_open'[d]]_vars

\* C9: when a driver's send on its quote channel fails because the receiver
\* was dropped, the driver task terminates: the step it takes from the failed
\* send ends the task, and an ended task sends nothing more and makes no
\* further read or connection attempt.
C9_FailedSendEndsDriver ==
    [][\A d \in StreamDrivers :
          /\ (dpc[d] = "send" /\ ~rx_open[d] /\ dpc'[d] # "send")
                 => dpc'[d] = "returned"
          /\ dpc[d] = "returned"
                 => /\ dpc'[d] = "returned"
                    /\ chan'[d] = chan[d]
                    /\ pending'[d] = pending[d]]_vars

\* a driver has ended on a failed send
C9_Witness == \E d \in StreamDrivers : dpc[d] = "returned" /\ ~rx_open[d]

\* C10: in streaming-scanner mode, once every venue driver's quote channel
\* has closed, all forwarders end, the matcher ends, and the snapshot
\* receiver, if the consumer still holds it, yields None.
C10_ClosedDriversEndStream ==
    (Scanning /\ \A d \in StreamDrivers : ~Running(d))
        ~> (AllTasksOver /\ consumer \in {"ended", "dropped"})

\* the consumer has received None after snapshots went through
C10_Witness == Scanning /\ consumer = "ended" /\ cache # {}

\* a backoff driver with reconnect = true, a cap and a live receiver fails a
\* connection attempt
CappedFailure(d) ==
    /\ ~FixedDelay(d) /\ reconnect /\ max_attempts # <<>> /\ rx_open[d]
    /\ dpc[d] = "connect" /\ dpc'[d] \in {"sleep", "exited"}

\* C11 (as the code has it): with reconnect = true and max_attempts = Some(n),
\* every failed connection attempt adds one to the attempt counter, the driver
\* exits when the counter reaches n, i.e. on the n-th consecutive failure, the
\* counter never passes n, and an exited driver makes no further attempt.
C11_ExitsAtCap ==
    [][\A d \in StreamDrivers :
          /\ CappedFailure(d) =>
                /\ attempts'[d] = attempts[d] + 1
                /\ attempts'[d] <= max_attempts[1]
                /\ dpc'[d] = "exited" <=> attempts'[d] = max_attempts[1]
          /\ dpc[d] = "exited" => dpc'[d] = "exited"]_vars

\* a driver has exited on the second or a later consecutive failure
C11_Witness ==
    \E d \in StreamDrivers :
        /\ ~FixedDelay(d) /\ reconnect /\ max_attempts # <<>> /\ rx_open[d]
        /\ dpc[d] = "exited"
        /\ attempts[d] = max_attempts[1] /\ max_attempts[1] >= 2

\* C11 (as stated): the driver exits when the counter first exceeds n, i.e.
\* after the (n+1)-th consecutive failed attempt.
C11_ExitsAfterCapExceeded ==
    [][\A d \in StreamDrivers :
          CappedFailure(d) =>
              (dpc'[d] = "exited" <=> attempts'[d] > max_attempts[1])]_vars

\* the caller asked driver d to reconnect
ReconnectAsked(d) == IF FixedDelay(d) THEN reconnect_attempts > 0 ELSE reconnect

\* C12: in every streaming driver a successful connection resets the attempt
\* counter to zero and the backoff to its initial value, so the attempt cap
\* limits consecutive failures only: a driver that is asked to reconnect and
\* whose receiver is alive is never stopped by the cap when the connection it
\* had established ends.
C12_SuccessResetsCounter ==
    [][\A d \in StreamDrivers :
          /\ (~FixedDelay(d) /\ dpc[d] = "connect" /\ dpc'[d] \in {"subscribe", "read"})
                 => attempts'[d] = 0 /\ backoff'[d] = 1
          /\ (dpc[d] = "read" /\ dpc'[d] = "exited")
                 => ~(ReconnectAsked(d) /\ rx_open[d])]_vars

RECURSIVE Pow2(_)
Pow2(k) == IF k <= 0 THEN 1 ELSE 2 * Pow2(k - 1)

C14_SleepsBeforeReconnect ==
    [][\A d \in StreamDrivers :
          (dpc'[d] = "connect" /\ dpc[d] # "connect") => dpc[d] = "sleep"]_vars

\* C15: a driver that was not asked to reconnect makes one connection
\* attempt: it never starts a second attempt and never sleeps, and when the
\* attempt fails, the subscribe fails or the connection ends, the task exits;
\* once the buffered quotes are taken the receiver yields None.
C15_NoReconnectOneAttempt ==
    [][\A d \in StreamDrivers : ~ReconnectAsked(d) =>
          /\ dpc'[d] # dpc[d] => dpc'[d] \notin {"connect", "sleep"}
          /\ (dpc[d] \in {"connect", "subscribe", "read"}
                 /\ dpc'[d] \notin {dpc[d], "subscribe", "read", "send"})
                => /\ dpc'[d] = "exited"
                   /\ chan'[d] = <<>> => recv_none(d)'
          /\ dpc[d] = "exited" => dpc'[d] = "exited"]_vars

\* the single connection delivered a quote and then ended, the receiver is alive
C15_Witness ==
    \E d \in StreamDrivers :
        /\ ~ReconnectAsked(d) /\ rx_open[d]
        /\ dpc[d] = "exited" /\ chan[d] # <<>>

StreamReturned == stream_result.state \in {"ok", "err"}
Requested == {cex_exchanges[i] : i \in 1..Len(cex_exchanges)}
NoTaskStarted ==
    /\ \A d \in StreamDrivers : dpc[d] = "none" /\ fpc[d] = "none"
    /\ mpc = "none" /\ consumer = "none"

FailedStarts ==
    {i \in 1..Len(cex_exchanges) :
        /\ cex_exchanges[i] \notin NoStreamVenues
        /\ stream_price_websocket(cex_exchanges[i], symbols).state = "err"}

\* C17: when the stream of a requested venue that supports streaming fails to
\* start, the streaming call returns that venue's error (the first such
\* venue's) and no forwarder, matcher or snapshot channel exists.
C17_StartFailurePropagates ==
    (StreamReturned /\ FailedStarts # {}) =>
        /\ \E i \in FailedStarts :
              /\ \A j \in FailedStarts : i <= j
              /\ stream_result = stream_price_websocket(cex_exchanges[i], symbols)
        /\ stream_result.state = "err"
        /\ mpc = "none" /\ consumer = "none"
        /\ \A d \in StreamDrivers : fpc[d] = "none" /\ ~rx_open[d]

\* the second venue's start failed after the first venue's stream had started
C17_Witness ==
    /\ stream_result.state = "err" /\ stream_result.kind = "InvalidSymbol"
    /\ \E d \in StreamDrivers : dpc[d] # "none"

\* the answers of the venues asked by scan_arbitrage_opportunities
Answers ==
    {cex_answers[i] : i \in 1..Len(cex_answers)}
        \cup {dex_answers[i] : i \in 1..Len(dex_answers)}

\* C18: a failed fetch never fails scan_arbitrage_opportunities: what it
\* returns is made of the quotes of the venues that answered and of nothing
\* else, every qualifying pair of those quotes is in it, and it is the empty
\* list when fewer than two venues answered.
C18_FailedFetchDropped ==
    ScanOnceReturned =>
        LET L == returned.value
            Fetched == Answers \ {Err}
        IN  /\ \A k \in 1..Len(L) :
                  L[k].source_leg \in Fetched /\ L[k].destination_leg \in Fetched
            /\ \A b, s \in Fetched :
                  LET ea == effective_price_with_overrides(b.ask_price,
                                b.exchange, "Buy", fee_overrides)
                      eb == effective_price_with_overrides(s.bid_price,
                                s.exchange, "Sell", fee_overrides)
                  IN  (b # s /\ eb > ea /\ PctGe([num |-> eb - ea, den |-> ea], Threshold))
                          => \E k \in 1..Len(L) :
                                L[k].source_leg = b /\ L[k].destination_leg = s
            /\ Cardinality(Fetched) < 2 => L = <<>>

\* one venue failed and the two that answered give an opportunity
C18_Witness ==
    /\ ScanOnceReturned
    /\ Err \in Answers
    /\ returned.value # <<>>

\* the quotes of venue d on their way to the matcher, oldest first: in the
\* merged channel, held by the forwarder, in the driver's channel, being sent
Pipe(d) ==
    SelectSeq(merged, LAMBDA q : q.exchange = Cex(d))
        \o (IF fpc[d] = "send" THEN <<fheld[d]>> ELSE <<>>)
        \o chan[d]
        \o (IF dpc[d] = "send" THEN <<pending[d]>> ELSE <<>>)

MatcherAlive == mpc \in {"recv", "send"}

\* C19: while the matcher runs, the quotes of one venue reach it in the order
\* the driver sent them: a step leaves the venue's pipeline as it is, adds a
\* new quote at its young end, or takes the oldest quote off, and what the
\* matcher takes from the merged channel is its head.
C19_VenueOrderKept ==
    [][/\ \A d \in StreamDrivers :
             (MatcherAlive /\ MatcherAlive') =>
                 \/ Pipe(d)' = Pipe(d)
                 \/ Pipe(d) # <<>> /\ Pipe(d)' = Tail(Pipe(d))
                 \/ /\ Len(Pipe(d)') = Len(Pipe(d)) + 1
                    /\ SubSeq(Pipe(d)', 1, Len(Pipe(d))) = Pipe(d)
       /\ (mpc = "recv" /\ Len(merged') < Len(merged)) =>
             /\ merged' = Tail(merged)
             /\ IsValid(Head(merged)) => Head(merged) \in cache']_vars

\* the matcher has taken a quote of a venue while two more quotes of that
\* venue, different from each other, are on their way
C19_Witness ==
    \E d \in StreamDrivers :
        /\ MatcherAlive
        /\ Len(Pipe(d)) >= 2 /\ Pipe(d)[1] # Pipe(d)[2]
        /\ \E q \in cache : q.exchange = Cex(d) /\ q # Pipe(d)[1]
        /\ \E i \in 1..Len(merged) : merged[i].exchange # Cex(d)

\* the quotes of venue d buffered in the channels between its driver and the matcher
Buffered(d) == Len(chan[d]) + Len(SelectSeq(merged, LAMBDA q : q.exchange = Cex(d)))

HandlesFrame == frame # NoFrame /\ frame' = NoFrame

\* the size of the last level of arr at price p, 0 if arr has none
LastAt(arr, p) ==
    LET I == {i \in 1..Len(arr) : arr[i][1] = p}
    IN  IF I = {} THEN 0 ELSE arr[MaxOf(I)][2]

\* the book side that arr lists: each price at its last non-zero size
Listed(arr) == [p \in {q \in BookPrices : LastAt(arr, q) # 0} |-> LastAt(arr, p)]

NonZeroLevels(arr) == {arr[i] : i \in {j \in 1..Len(arr) : arr[j][2] # 0}}
LevelsOf(map) == {<<p, map[p]>> : p \in DOMAIN map}
OncePerPrice(arr) == \A i, j \in 1..Len(arr) : arr[i][1] = arr[j][1] => i = j

\* C21: after a snapshot frame is handled the book is what the snapshot lists,
\* whatever it held before: each side holds exactly the snapshot's non-zero
\* levels (of a price listed twice, the last level counts), every level of the
\* book is a level of the snapshot, and handling the same snapshot again
\* gives the same book.
C21_SnapshotReplacesBook ==
    [][HandlesFrame /\ frame.kind = "snapshot" =>
        /\ bids' = Listed(frame.bids) /\ asks' = Listed(frame.asks)
        /\ OncePerPrice(frame.bids) => LevelsOf(bids') = NonZeroLevels(frame.bids)
        /\ OncePerPrice(frame.asks) => LevelsOf(asks') = NonZeroLevels(frame.asks)
        /\ LevelsOf(bids') \subseteq NonZeroLevels(frame.bids)
        /\ LevelsOf(asks') \subseteq NonZeroLevels(frame.asks)
        /\ side_after(bids', frame.bids, book_venue, frame.kind) = bids'
        /\ side_after(asks', frame.asks, book_venue, frame.kind) = asks'
    ]_vars

\* a snapshot with a non-zero and a zero-size level is handled over a book
\* that holds levels at prices the snapshot does not list
C21_Witness ==
    /\ frame.kind = "snapshot"
    /\ OncePerPrice(frame.bids)
    /\ \E i, j \in 1..Len(frame.bids) : frame.bids[i][2] # 0 /\ frame.bids[j][2] = 0
    /\ \E p \in DOMAIN bids : \A i \in 1..Len(frame.bids) : frame.bids[i][1] # p
    /\ \E p \in DOMAIN asks : \A i \in 1..Len(frame.asks) : frame.asks[i][1] # p

\* what applying the level <<price, size>> makes of a book side
AppliedTo(before, after, level) ==
    /\ level[2] = 0 => level[1] \notin DOMAIN after
    /\ level[2] # 0 => level[1] \in DOMAIN after /\ after[level[1]] = level[2]
    /\ \A p \in BookPrices \ {level[1]} :
          /\ p \in DOMAIN after <=> p \in DOMAIN before
          /\ p \in DOMAIN before => after[p] = before[p]

\* C22: applying a level to a book side removes its price when the size is
\* zero and stores the size at its price otherwise, and leaves every other
\* price of the side as it was; a frame's levels are applied one after another.
C22_LevelApplied ==
    [][HandlesFrame /\ frame.kind = "update" =>
        /\ Len(frame.bids) = 0 => bids' = bids
        /\ Len(frame.asks) = 0 => asks' = asks
        /\ Len(frame.bids) = 1 => AppliedTo(bids, bids', frame.bids[1])
        /\ Len(frame.asks) = 1 => AppliedTo(asks, asks', frame.asks[1])
        /\ Len(frame.bids) = 2 =>
              \E mid \in {apply_level(bids, frame.bids[1])} :
                  /\ AppliedTo(bids, mid, frame.bids[1])
                  /\ AppliedTo(mid, bids', frame.bids[2])
    ]_vars

\* a delta removes one price the bid side holds and changes the size at
\* another, while the side holds a third price, and sets a new ask
C22_Witness ==
    /\ frame.kind = "update"
    /\ Len(frame.bids) = 2 /\ Len(frame.asks) = 1
    /\ frame.bids[1][1] # frame.bids[2][1]
    /\ frame.bids[1][1] \in DOMAIN bids /\ frame.bids[1][2] = 0
    /\ frame.bids[2][1] \in DOMAIN bids /\ frame.bids[2][2] # 0
    /\ frame.bids[2][2] # bids[frame.bids[2][1]]
    /\ DOMAIN bids = BookPrices
    /\ frame.asks[1][1] \notin DOMAIN asks /\ frame.asks[1][2] # 0
    /\ DOMAIN asks # {}

\* C23: the quote a handled frame produces is the book's highest-priced bid
\* and lowest-priced ask with the sizes stored at them, and there is none
\* exactly when a side is empty or one of these two prices is not above zero.
C23_BestOfBook ==
    book_venue \in BookVenues /\ frame = NoFrame =>
        /\ quote = NoQuote <=>
              \/ DOMAIN bids = {} \/ DOMAIN asks = {}
              \/ \A p \in DOMAIN bids : p <= 0
              \/ \E p \in DOMAIN asks : p <= 0
        /\ quote # NoQuote =>
              /\ quote[1] \in DOMAIN bids /\ \A p \in DOMAIN bids : p <= quote[1]
              /\ quote[2] \in DOMAIN asks /\ \A p \in DOMAIN asks : quote[2] <= p
              /\ quote[3] = bids[quote[1]]
              /\ quote[4] = asks[quote[2]]

\* a frame was handled over a book of several bids and several asks, with
\* different sizes at the bids, and produced a quote
C23_Witness ==
    /\ book_venue \in BookVenues /\ frame = NoFrame
    /\ quote # NoQuote
    /\ \E p, q \in DOMAIN bids : p # q /\ bids[p] # bids[q]
    /\ \E p, q \in DOMAIN asks : p # q

\* C24: a book frame that its tag makes neither a snapshot nor a delta is
\* ignored: the book stays as it was and no quote is produced.
C24_OtherFrameIgnored ==
    [][HandlesFrame /\ frame.kind = "other" =>
        bids' = bids /\ asks' = asks /\ quote' = NoQuote]_vars

(***************************************************************************)
(* Symbols                                                                 *)
(***************************************************************************)
\* the documented lossy rules: Upbit writes USD as KRW, Bitfinex USDT as UST
Lossy(c, v) ==
    \/ v = "Upbit" /\ ends_with(c, USD)
    \/ v = "Bitfinex" /\ ends_with(c, USDT)

\* C26: a canonical symbol formatted for a venue's REST API and then made
\* standard again is the canonical symbol, except under the lossy USD -> KRW
\* and USDT -> UST rules.
C26_RoundTrip ==
    codec.pc = "rest_done" /\ ~Lossy(codec.symbol, codec.exchange) =>
        codec.standard = codec.symbol

\* the venues that write base, separator, quote
SeparatedVenues == {"OKX", "Kucoin", "Coinbase", "Gateio", "Cryptocom"}
Separator(v) == IF v \in {"Gateio", "Cryptocom"} THEN <<"_">> ELSE <<"-">>

\* s with sep put before its last k characters
SplitBefore(s, k, sep) == SubSeq(s, 1, Len(s) - k) \o sep \o SubSeq(s, Len(s) - k + 1, Len(s))

\* C27: the dash and the underscore venues format a canonical symbol that ends
\* in USDT and has a base by splitting it right before USDT; they split three
\* characters from the end only when the symbol does not end in USDT.
C27_SplitBeforeUsdt ==
    /\ codec.pc \in {"rest", "rest_done", "failed"}
    /\ codec.exchange \in SeparatedVenues
    /\ ends_with(codec.symbol, USDT)
    /\ Len(codec.symbol) > 4
    => codec.wire = Formatted(SplitBefore(codec.symbol, 4, Separator(codec.exchange)))

\* C25: every quote a streaming driver sends carries the requested pair's
\* canonical symbol, the one the matcher groups the venues' quotes by.
C25_QuotesCarryCanonicalSymbol ==
    \A d \in StreamDrivers :
        /\ pending[d] # NoPrice => pending[d].symbol \in SymbolSet
        /\ \A i \in 1..Len(chan[d]) : chan[d][i].symbol \in SymbolSet

(***************************************************************************)
(* Fees                                                                    *)
(***************************************************************************)
\* every opportunity of every list the scanner has handed out
EmittedOpportunities == UNION {{l[i] : i \in 1..Len(l)} : l \in Emitted}

\* the caller's override for the venue of a quote if there is one, else the
\* default table's rate
RateInForce(ex) ==
    LET table == IF ex.kind = "Cex" THEN taker_fee_rate(ex.v) ELSE 0
    IN  IF fee_overrides = NoOverrides THEN table
        ELSE LET given == IF ex.kind = "Cex" THEN fee_overrides.cex_taker
                          ELSE fee_overrides.dex_taker
             IN  IF ex.v \in DOMAIN given THEN given[ex.v] ELSE table

\* C28: in every opportunity the rate of each venue is its override when the
\* caller's FeeOverrides has one and the default table's otherwise, and that
\* one rate gives both the effective price and the commission percent.
C28_OneRatePerVenue ==
    \A o \in EmittedOpportunities :
        LET src == RateInForce(o.source_leg.exchange)
            dst == RateInForce(o.destination_leg.exchange)
        IN  /\ o.source_commission_percent = src
            /\ o.destination_commission_percent = dst
            /\ o.effective_ask = o.source_leg.ask_price * (FeeScale + src)
            /\ o.effective_bid = o.destination_leg.bid_price * (FeeScale - dst)

\* an opportunity between a venue with an override that differs from its
\* default rate and a venue without one
C28_Witness ==
    /\ fee_overrides # NoOverrides
    /\ \E o \in EmittedOpportunities :
          /\ o.source_leg.exchange = Cex("Binance")
          /\ "Binance" \in DOMAIN fee_overrides.cex_taker
          /\ fee_overrides.cex_taker["Binance"] # taker_fee_rate("Binance")
          /\ o.destination_leg.exchange = Cex("MEXC")
          /\ "MEXC" \notin DOMAIN fee_overrides.cex_taker

\* C29 (as the code has it): in every opportunity, effective_ask is at least
\* the raw ask of the source leg when the source venue's rate is not negative,
\* and effective_bid at most the raw bid of the destination leg when the
\* destination venue's rate is not negative.
C29_FeesWidenPrices ==
    \A o \in EmittedOpportunities :
        /\ RateInForce(o.source_leg.exchange) >= 0 =>
              o.effective_ask >= o.source_leg.ask_price * FeeScale
        /\ RateInForce(o.destination_leg.exchange) >= 0 =>
              o.effective_bid <= o.destination_leg.bid_price * FeeScale

\* an opportunity under overrides whose rates for its two venues are positive
C29_Witness ==
    /\ fee_overrides # NoOverrides
    /\ \E o \in EmittedOpportunities :
          /\ RateInForce(o.source_leg.exchange) > 0
          /\ RateInForce(o.destination_leg.exchange) > 0
          /\ o.effective_ask > o.source_leg.ask_price * FeeScale
          /\ o.effective_bid < o.destination_leg.bid_price * FeeScale

\* C29 (as stated): whatever the rates, effective_ask is at least the raw ask
\* of the source leg and effective_bid at most the raw bid of the destination leg.
C29_AnyRateWidensPrices ==
    \A o \in EmittedOpportunities :
        /\ o.effective_ask >= o.source_leg.ask_price * FeeScale
        /\ o.effective_bid <= o.destination_leg.bid_price * FeeScale

(***************************************************************************)
(* The DEX client                                                          *)
(***************************************************************************)
\* the leg a query of the call prices
Leg(query) == IF query.token_in = dex.quote_token THEN "bid" ELSE "ask"

\* the replies that have come in for the queries of the call, by leg
BidAmountOut ==
    IF dex.pc = "done" /\ dex.result.ok THEN dex.result.bid_route_summary.amount_out
    ELSE <<"none">>

\* C30: the first query of a get_price call is the bid leg's, and the ask
\* leg's query is issued after the bid leg's reply with that reply's
\* amount out as its amount in.
C30_AskSizedByBid ==
    /\ dex.queries # <<>> => Leg(dex.queries[1]) = "bid"
    /\ \A i \in 1..Len(dex.queries) :
          Leg(dex.queries[i]) = "ask" =>
             /\ i = 2
             /\ dex.pc = "done" /\ dex.result.ok =>
                   dex.queries[i].amount_in = BidAmountOut

\* get_price has returned a quote
DexQuoted == dex.pc = "done" /\ dex.result.ok

\* C31: a get_price call whose bid leg reports a zero amount out, or whose
\* ask leg reports a zero amount in, the divisors of the two prices, returns
\* an error: no quote comes out of it.
C31_ZeroDivisorIsError ==
    DexQuoted =>
        /\ ~is_zero(dex.result.bid_route_summary.amount_out)
        /\ ~is_zero(dex.result.ask_route_summary.amount_in)

\* C32: get_price with the two tokens on different chains returns an error
\* and has sent no query.
C32_ChainCheckedBeforeHttp ==
    /\ dex.pc \notin {"none", "start"}
    /\ dex.base_token.chain_id # dex.quote_token.chain_id
    => dex.pc = "done" /\ ~dex.result.ok /\ dex.queries = <<>>

\* the call of the test: ETH of Ethereum against USDC of Base
C32_Witness ==
    /\ dex.pc = "done"
    /\ dex.base_token = Token("ETH", 18, "ETHEREUM")
    /\ dex.quote_token = Token("USDC", 6, "BASE")
    /\ dex.result = DexErr("InvalidSymbol")

(***************************************************************************)
(* The legs of an opportunity                                              *)
(***************************************************************************)
\* C40: in every opportunity the entry points have handed out, the source
\* leg and the destination leg carry the same symbol, the one in the
\* opportunity's symbol field.
C40_LegsShareSymbol ==
    \A o \in EmittedOpportunities :
        /\ o.source_leg.symbol = o.destination_leg.symbol
        /\ o.symbol = o.source_leg.symbol

(***************************************************************************)
(* One venue                                                               *)
(***************************************************************************)
\* the venues whose valid quotes of symbol s the matcher holds
VenuesOf(c, s) == {q.exchange : q \in {p \in c : p.symbol = s}}

\* the matcher takes a valid quote from the merged channel
ProcessesValidQuote ==
    mpc = "recv" /\ merged # <<>> /\ IsValid(Head(merged)) /\ merged' = Tail(merged)

\* the snapshot the matcher holds goes onto the output channel
SnapshotSent == mpc = "send" /\ mpc' = "recv" => out' = Append(out, all_opps)

\* C34 (as the code has it): when the matcher processes a valid quote of a
\* symbol whose valid quotes have come from one venue only, it goes on to
\* send a snapshot, which is put on the output channel as it is; the
\* snapshot has no opportunity of that symbol, and it is the empty list when
\* no requested symbol has valid quotes from two venues.
C34_OneVenueSnapshot ==
    [][/\ SnapshotSent
       /\ (ProcessesValidQuote /\ Cardinality(VenuesOf(cache', Head(merged).symbol)) = 1) =>
             /\ mpc' = "send"
             /\ \A k \in 1..Len(all_opps') : all_opps'[k].symbol # Head(merged).symbol
             /\ (\A s \in SymbolSet : Cardinality(VenuesOf(cache', s)) <= 1) =>
                   all_opps' = <<>>]_vars

\* an empty snapshot is on the output channel while the matcher holds the
\* quotes of a single venue
C34_Witness ==
    /\ Scanning
    /\ \E i \in 1..Len(out) : out[i] = <<>>
    /\ Cardinality({q.exchange : q \in cache}) = 1

\* C34 (as stated): when the matcher processes a valid quote of a symbol whose
\* valid quotes have come from one venue only, it goes on to send a
\* snapshot, and the snapshot is the empty list.
C34_OneVenueEmptySnapshot ==
    [][(ProcessesValidQuote /\ Cardinality(VenuesOf(cache', Head(merged).symbol)) = 1) =>
          mpc' = "send" /\ all_opps' = <<>>]_vars

(***************************************************************************)
(* The pool listener                                                       *)
(***************************************************************************)
\* C33: in EveryBlock mode, no block number is sent on the channel more
\* than once, from the start of the listener on.
C33_OneUpdatePerBlock ==
    (pool.pc # "none" /\ pool.listen_mode = "EveryBlock") =>
        \A b \in Blocks : pool.updates[b] <= 1

\* C39: once the consumer has dropped the receiver, the listener starts no
\* further run of run_listener, that is, opens no further connection.
C39_NoRunAfterDrop ==
    [][(pool.pc # "none" /\ ~pool.rx_open) => pool'.attempt = pool.attempt]_vars

\* C36: in the Bitfinex driver every quote sent carries the symbol of the
\* "subscribed" acknowledgement that the venue sent for the same channel id
\* on the connection in use, and a ticker frame whose channel id has no
\* acknowledgement on that connection sends nothing
BfxQuoteSent == Len(bfx'.chan) > Len(bfx.chan)
C36_QuoteSymbolFromAck ==
    [][/\ BfxQuoteSent =>
            /\ bfx'.frame.kind = "ticker"
            /\ bfx'.frame.chan_id \in DOMAIN bfx.acked
            /\ bfx'.chan[Len(bfx'.chan)].symbol =
                  standard_symbol_for_cex_ws_response(bfx.acked[bfx'.frame.chan_id],
                                                      "Bitfinex")
       /\ (bfx.pc = "read" /\ bfx'.frame # bfx.frame /\ bfx'.frame.kind = "ticker"
           /\ bfx'.frame.chan_id \notin DOMAIN bfx.acked) =>
              bfx'.chan = bfx.chan /\ bfx'.pc = "read"]_vars
\* a quote has been sent for a ticker of channel 1, which the venue
\* acknowledged for the second symbol of the request
C36_Witness ==
    /\ bfx.chan # <<>> /\ bfx.frame.kind = "ticker" /\ bfx.frame.chan_id = 1
    /\ 1 \in DOMAIN bfx.acked /\ bfx.acked[1] = bfx.bitfinex_symbols[2]
    /\ bfx.chan[Len(bfx.chan)].symbol =
          standard_symbol_for_cex_ws_response(bfx.bitfinex_symbols[2], "Bitfinex")

\* C38: the read loop of a connection is entered only after every subscribe
\* message of the connection was sent
C38_ReadsOnlyFullySubscribed ==
    bfx.pc = "read" =>
       bfx.subscribed = {bfx.bitfinex_symbols[i] : i \in 1..Len(bfx.bitfinex_symbols)}

\* the levels of a frame that are levels and whose price and size both read
RECURSIVE parsed_levels(_)
parsed_levels(arr) ==
    IF arr = <<>> THEN <<>>
    ELSE IF Head(arr) = NotALevel \/ Head(arr)[1] = <<>> \/ Head(arr)[2] = <<>>
    THEN parsed_levels(Tail(arr))
    ELSE <<<<Head(arr)[1][1], Head(arr)[2][1]>>>> \o parsed_levels(Tail(arr))

\* C35: a frame that fails to parse leaves the books as they were and gives
\* no quote, and a level that fails to parse changes nothing: the books
\* after the frame are what the levels that parse make of them
C35_UnparsedChangesNothing ==
    [][wire' \in WireFrames =>
          IF ~wire'.json
          THEN bids' = bids /\ asks' = asks /\ quote' = NoQuote
          ELSE /\ bids' = side_after(bids, parsed_levels(wire'.bids), book_venue, wire'.kind)
               /\ asks' = side_after(asks, parsed_levels(wire'.asks), book_venue, wire'.kind)]_vars

\* C37: a book driver has a quote only when a snapshot was applied on the
\* connection in use
C37_QuoteOnlyAfterSnapshot == (wire # NoWire /\ quote # NoQuote) => snapshot_applied

====
